---- MODULE Spec2Model ----
(***************************************************************************)
(* JSHunter: the staged multi-pool pipeline and its recovery protocol.     *)
(*                                                                         *)
(* The record store (endpoints, js_files) is the durable state.  Workers   *)
(* and hooks hold in-memory record objects (core.Record): a Save writes    *)
(* every field of the object to the row and then runs the collection's     *)
(* after-update hook on that same object.  Several jobs can share one      *)
(* object (the hooks pass e.Record on), and the recovery sweeps load a     *)
(* fresh copy of a row for every sweep.                                    *)
(*                                                                         *)
(* A step is one handler: a hook with the saves and hooks nested in it, a  *)
(* sweep of the recovery, a worker's receive and processJob up to its next *)
(* save.  An exit can fall between any two steps.  A queue holds the jobs  *)
(* submitted and not yet processed, and QueueCap bounds it.  Clients post  *)
(* endpoints once the start-up recovery has returned.  Hashes, findings    *)
(* and the file tree are not followed.                                     *)
(*                                                                         *)
(* PoolSpec looks inside one pool: the mutex, the context, the channel,    *)
(* the wait group and the goroutines of Start, Stop, SubmitJob, the        *)
(* Add*Job entry points and the workers.  A step there is one stretch of a *)
(* goroutine between two points where it can block.                        *)
(*                                                                         *)
(* ExtSpec and DechSpec follow the registration of js_files, with every    *)
(* lookup and every insert a step of its own: ExtSpec has one extraction   *)
(* worker per endpoint, DechSpec one extraction worker, the dechunker and  *)
(* a restart.  TmpSpec has the tmp_endpoints after-create hook in the      *)
(* goroutines of concurrent requests, and HookSpec the js_files            *)
(* after-update hook in the goroutines of the workers that save one        *)
(* record object.                                                          *)
(*                                                                         *)
(* The smaller specifications each follow one piece of a stage: AnSpec the *)
(* findings an analysis job converts and stores, ValSpec the validation of *)
(* a js_file by the jobs a restart recovers, FsSpec the jobs of a js_file  *)
(* whose saves can fail, SmSpec one sourcemap job, PathSpec the paths its  *)
(* source files are written to, HashSpec the structural hash of pages,     *)
(* PfSpec the two HTML prettify jobs of an endpoint, BatchSpec batch       *)
(* submissions to the extraction pool, and RestartSpec one pool under any  *)
(* sequence of Start and Stop.                                             *)
(***************************************************************************)
EXTENDS Integers, Sequences, FiniteSets, TLC

\* ---------------------------------------------------------------- bounds
MaxRecords == 2
QueueCap == 1
Workers == 1
MaxBoots == 1
PoolWorkers == 2
PoolQueueSize == 2
PoolCallers == 2
MaxJobs == 3
RegJobs == 2
MaxJs == 3
MaxTmp == 3
MaxFindings == 2

\* The longest sources path, in segments.
MaxSegs == 4

\* The most elements in the body of a page.
MaxElements == 3

\* The buffer of the extraction pool's channel, for batch submissions.
BatchQueueSize == 2

\* The most successful calls of Start on one pool.
MaxStarts == 2

VARIABLES
    store,      \* record store: record id -> row (persists across exits)
    objs,       \* in-memory record objects: <<record id, origin>> -> row
    queue,      \* per pool: the jobs submitted and not yet processed
    active,     \* the extraction runs under way (a run takes several saves)
    hooks,      \* endpoint objects whose after-create hook has not run yet
    phase,      \* "down" | "starting" | "serving"
    running,    \* per pool: isRunning
    rec,        \* recovery goroutine: 0 not started, 1..6 next sweep,
                \* 7 sweeps done, 8 returned
    now,        \* logical clock behind time.Now()
    boots,      \* process exits so far
    hookLog,    \* history: submissions made by hooks in the last step
    recLog,     \* history: submissions made by the running recovery, in order
    lastRun,    \* history: the helper run of the last step (or NoRun)
    cleanStop,  \* history: the last exit found no job or hook mid-flight
    s6,         \* history: js_files that were in scenario S6's state at boot
    booted,     \* history: the records the store held at boot
    missed      \* history: the <<stage, record>> pairs a hook failed to queue
                \* in this boot (.now), and those of the boot before that
                \* the exit found at processing (.prev)

\* One worker pool seen from the inside: its mutex, context, channel and
\* goroutines.  The five pools share this shape; kind tells the two families
\* of entry points apart.
VARIABLES
    kind,       \* "checked": Add*Job asks IsRunning and calls SubmitJob
                \* (prettify, analysis, dechunker); "direct": Add*Job sends
                \* on the channel itself (extraction, sourcemap)
    isRunning,  \* p.isRunning
    jobQueue,   \* p.jobQueue: the buffered channel's content
    closed,     \* p.jobQueue has been closed
    ctxDone,    \* p.ctx has been cancelled
    mu,         \* p.mu: the thread holding the write lock, or 0
    workerWg,   \* p.workerWg: the counter
    pc,         \* every thread's position
    cur,        \* per worker: the job it is processing, or 0
    sub,        \* per thread: the job it is submitting, or 0
    ret,        \* per thread: what its last call returned
    jobStatus,  \* per job: the stage status of the job's record
    nextJob,    \* the next job to be made
    closes,     \* history: close(p.jobQueue) calls so far
    spawned,    \* history: worker goroutines started so far
    accepted,   \* history: the jobs sent on the channel, in order
    started,    \* history: the jobs received from the channel, in order
    jobEnd,     \* history: per job, how its blocking work ended
    panicked,   \* history: the jobs whose processing panicked
    crashed     \* the process died of an unrecovered panic

pipeVars == <<store, objs, queue, active, hooks, phase, running, rec, now, boots,
              hookLog, recLog, lastRun, cleanStop, s6, booted, missed>>

poolVars == <<kind, isRunning, jobQueue, closed, ctxDone, mu, workerWg, pc, cur,
              sub, ret, jobStatus, nextJob, closes, spawned, accepted, started,
              jobEnd, panicked, crashed>>

\* The registration of files: the extraction jobs and the dechunker as
\* writers of js_files, with the lookups and the inserts as separate steps.
VARIABLES
    mobileOn,   \* config.MobileExtractionEnabled, as the --mobile flag set it
    jsRows,     \* the js_files table: the rows in insertion order
    eps,        \* the endpoints under extraction: endpoint -> row
    xw,         \* per endpoint: its extraction job's locals and position
    dq,         \* the dechunker queue (js_files ids)
    dw,         \* the dechunker worker's locals and position
    swept,      \* <<the js_files the restart found>>, empty before the restart
    dqLog,      \* history: the js_files ever put on the dechunker queue
    byDechunker,\* history: the js_files the dechunker created
    prettifyPath\* history: per endpoint, the hash its HTML prettify job's
                \* path was built from ("none": no job)

regVars == <<mobileOn, jsRows, eps, xw, dq, dw, swept, dqLog, byDechunker,
             prettifyPath>>

\* The ingest: the requests that create tmp_endpoints, each running the
\* after-create hook in its own goroutine.
VARIABLES
    tmpRows,    \* the tmp_endpoints table: the requests whose row exists
    hookEps,    \* the endpoints table: the hashes of the rows, in insertion order
    treq,       \* per request: its hook's position and the body's hash
    hookRet     \* per request: what its hook returned ("none" before)

tmpVars == <<tmpRows, hookEps, treq, hookRet>>

\* One js_file under its workers: the record object they and the
\* after-update hook share, each read and each write a step.
VARIABLES
    jsObj,      \* the shared record object: its status fields
    hstack,     \* per worker goroutine: the positions of its hook calls, innermost first
    hjobs,      \* history: per stage, the jobs the hook submitted
    hruns       \* per stage, the jobs its worker has finished

hookVars == <<jsObj, hstack, hjobs, hruns>>

\* The analysis of one js_file: what the analyzer reported, and the findings
\* made and stored from it.
VARIABLES
    anResult,   \* NodeJSAnalyzerResult: per array, the elements reported
    anFound,    \* []Finding: the findings not yet saved
    findingRows,\* the findings table: the rows saved, in insertion order
    anPc        \* the analysis job's position

anVars == <<anResult, anFound, findingRows, anPc>>

\* One js_file over a restart: the row, and the copies of it the recovery's
\* sweeps load for the jobs they queue.
VARIABLES
    vRow,       \* the js_files row
    vCopy,      \* per stage: the record its recovered job holds (NoCopy: no job)
    vNext,      \* 0: not booted; 1..4: the sweep to run next; 5: recovery done
    vHelper     \* history: the stages whose helper or fetch ran on the file

valVars == <<vRow, vCopy, vNext, vHelper>>

\* One js_file in a run whose saves can fail: the row, and the record object
\* the jobs of the run share.
VARIABLES
    fsRow,      \* the js_files row: its status fields
    fsObj,      \* the record object the hooks handed to the jobs
    fsJobs,     \* the stages with a job queued for the file
    fsFailed    \* history: the stages whose worker's final save failed

fsVars == <<fsRow, fsObj, fsJobs, fsFailed>>

\* One sourcemap job.
VARIABLES
    smIn,       \* what the job meets: the body's comment and the two URLs
    smRes,      \* what ProcessSourceMap returned
    smObj,      \* sourcemap_status of the job's record
    smRow,      \* sourcemap_status of the row
    smWritten,  \* the files written under <domain>/<hash>/original/
    smPc        \* the job's position

smVars == <<smIn, smRes, smObj, smRow, smWritten, smPc>>

\* The source files of one sourcemap.
VARIABLES
    pSource,    \* the path in the map's sources, split at "/"
    pClean,     \* SourceFile.Path, as extractSourcesToTempDir left it
    pWritten,   \* the files written, as absolute paths split at "/"
    pPc         \* the position in the job

pathVars == <<pSource, pClean, pWritten, pPc>>

\* Two pages and their structural hashes.
VARIABLES
    hDoc,       \* a page: the elements of its body, in document order
    hHash,      \* its hash
    hOther,     \* the page hashed after it
    hOtherHash, \* the hash of that page
    hPc         \* which page was hashed second

hashVars == <<hDoc, hHash, hOther, hOtherHash, hPc>>

\* An endpoint's two HTML prettify jobs, in two executions that differ in
\* nothing but the order the jobs finish in.
VARIABLES
    pfOutcome,  \* what the prettifier does with each of the two files
    pfObj,      \* per execution: prettify_status of the record of the jobs
    pfRow,      \* per execution: the endpoint's persisted prettify_status
    pfLeft,     \* per execution: the jobs queued and not yet run
    pfSaving    \* per execution: the jobs that ran and have not yet saved

pfVars == <<pfOutcome, pfObj, pfRow, pfLeft, pfSaving>>

\* Batch submissions to the extraction pool.
VARIABLES
    bQueue,     \* the pool's channel
    bBatch,     \* per submitter: the records it was given
    bPc,        \* per submitter: its position in the call
    bIdx,       \* per submitter: the loop's index
    bErr,       \* per submitter: lastError is set
    bRet,       \* per submitter: what the call returned
    bAccepted   \* history: the records the channel has taken, in order

batchVars == <<bQueue, bBatch, bPc, bIdx, bErr, bRet, bAccepted>>

besidesPipe == <<poolVars, regVars, tmpVars, hookVars, anVars, valVars,
                 fsVars, smVars, pathVars, hashVars, pfVars, batchVars>>
besidesPool == <<pipeVars, regVars, tmpVars, hookVars, anVars, valVars,
                 fsVars, smVars, pathVars, hashVars, pfVars, batchVars>>
besidesReg == <<pipeVars, poolVars, tmpVars, hookVars, anVars, valVars,
                fsVars, smVars, pathVars, hashVars, pfVars, batchVars>>
besidesTmp == <<pipeVars, poolVars, regVars, hookVars, anVars, valVars,
                fsVars, smVars, pathVars, hashVars, pfVars, batchVars>>
besidesHook == <<pipeVars, poolVars, regVars, tmpVars, anVars, valVars,
                 fsVars, smVars, pathVars, hashVars, pfVars, batchVars>>
besidesAn == <<pipeVars, poolVars, regVars, tmpVars, hookVars, valVars,
               fsVars, smVars, pathVars, hashVars, pfVars, batchVars>>
besidesVal == <<pipeVars, poolVars, regVars, tmpVars, hookVars, anVars,
                fsVars, smVars, pathVars, hashVars, pfVars, batchVars>>
besidesFs == <<pipeVars, poolVars, regVars, tmpVars, hookVars, anVars,
               valVars, smVars, pathVars, hashVars, pfVars, batchVars>>
besidesSm == <<pipeVars, poolVars, regVars, tmpVars, hookVars, anVars,
               valVars, fsVars, pathVars, hashVars, pfVars, batchVars>>
besidesPath == <<pipeVars, poolVars, regVars, tmpVars, hookVars, anVars,
                 valVars, fsVars, smVars, hashVars, pfVars, batchVars>>
besidesHash == <<pipeVars, poolVars, regVars, tmpVars, hookVars, anVars,
                 valVars, fsVars, smVars, pathVars, pfVars, batchVars>>
besidesPf == <<pipeVars, poolVars, regVars, tmpVars, hookVars, anVars,
               valVars, fsVars, smVars, pathVars, hashVars, batchVars>>
besidesBatch == <<pipeVars, poolVars, regVars, tmpVars, hookVars, anVars,
                  valVars, fsVars, smVars, pathVars, hashVars, pfVars>>

vars == <<pipeVars, poolVars, regVars, tmpVars, hookVars, anVars, valVars,
          fsVars, smVars, pathVars, hashVars, pfVars, batchVars>>

\* config.MobileExtractionEnabled (the --mobile flag's default)
MobileExtractionEnabled == FALSE

\* ------------------------------------------------------------ vocabulary
Pools == {"extraction", "prettify", "sourcemap", "analysis", "dechunker"}

EndpointIds == {<<"endpoints", i>> : i \in 1..MaxRecords}
JsFileIds == {<<"js_files", i>> : i \in 1..MaxRecords}

Terminal == {"processed", "failed"}
Unfinished == {"pending", "processing"}

StatusField(pool) ==
    CASE pool = "extraction" -> "extraction_status"
      [] pool = "prettify" -> "prettify_status"
      [] pool = "sourcemap" -> "sourcemap_status"
      [] pool = "analysis" -> "analysis_status"
      [] pool = "dechunker" -> "dechunker_status"

StatusFields(id) ==
    IF id[1] = "endpoints"
    THEN {"extraction_status", "prettify_status"}
    ELSE {"prettify_status", "sourcemap_status", "analysis_status", "dechunker_status"}

NoRun == [stage |-> "none"]
NoJs == <<>>

\* The row the tmp_endpoints hook inserts.
NewEndpoint(t) ==
    [extraction_status |-> "pending", prettify_status |-> "pending",
     mobile_hash |-> FALSE, created_at |-> t]

\* The row saveProcessingResults / fetchAndSaveChunks insert: url, hash and
\* type only, every status still empty.
NewJsFile(ty) ==
    [type |-> ty, prettify_status |-> "", sourcemap_status |-> "",
     analysis_status |-> "", dechunker_status |-> "", created_at |-> 0]

\* The state a handler works on, threaded through its calls.
Cur == [store |-> store, objs |-> objs, queue |-> queue, now |-> now,
        hookLog |-> {}, recLog |-> recLog]

\* record.Set(field, value)
Set(S, o, f, v) == [S EXCEPT !.objs[o][f] = v]

\* A new in-memory object o holding row r.
Load(S, o, r) ==
    [S EXCEPT !.objs = [k \in DOMAIN S.objs \cup {o} |->
                            IF k = o THEN r ELSE S.objs[k]]]

\* Insert of a new row (the create half of app.Save).
Insert(S, o) ==
    [S EXCEPT !.store = [k \in DOMAIN S.store \cup {o[1]} |->
                            IF k = o[1] THEN S.objs[o] ELSE S.store[k]]]

\* ------------------------------------------------------------ submission
\* What a submission looked like in the store when it was made.
SubmitEvent(S, pool, id, ok) ==
    [stage |-> pool, rec |-> id, ok |-> ok,
     st |-> S.store[id][StatusField(pool)],
     pst |-> S.store[id].prettify_status,
     at |-> S.store[id].created_at]

\* The non-blocking send of every pool: enqueue if there is room, else fail.
Submit(S, pool, job, by) ==
    LET ok == Len(S.queue[pool]) < QueueCap
        ev == SubmitEvent(S, pool, job.rec[1], ok)
        S1 == IF ok THEN [S EXCEPT !.queue[pool] = Append(@, job)] ELSE S
    IN  IF by = "recovery"
        THEN [S1 EXCEPT !.recLog = Append(@, ev)]
        ELSE [S1 EXCEPT !.hookLog = @ \cup {ev}]

AddExtractionJob(S, o, by) == Submit(S, "extraction", [rec |-> o, file |-> ""], by)
AddPrettifyJob(S, o, file, by) == Submit(S, "prettify", [rec |-> o, file |-> file], by)
AddSourcemapJob(S, o, by) == Submit(S, "sourcemap", [rec |-> o, file |-> ""], by)
AddAnalysisJob(S, o, by) == Submit(S, "analysis", [rec |-> o, file |-> ""], by)
AddDechunkerJob(S, o, by) == Submit(S, "dechunker", [rec |-> o, file |-> ""], by)

\* ----------------------------------------------------------------- hooks
RECURSIVE Save(_, _)

\* OnRecordAfterUpdateSuccess("endpoints")
EndpointsAfterUpdate(S, o) ==
    IF S.objs[o].prettify_status = "pending" /\ S.objs[o].extraction_status = "processed"
    THEN LET S1 == AddPrettifyJob(Save(Set(S, o, "prettify_status", "processing"), o),
                                  o, "html", "hook")
         IN  IF S1.objs[o].mobile_hash
             THEN AddPrettifyJob(Save(Set(S1, o, "prettify_status", "processing"), o),
                                 o, "mobile_html", "hook")
             ELSE S1
    ELSE S

\* OnRecordAfterUpdateSuccess("js_files")
JsFilesAfterUpdate(S, o) ==
    IF S.objs[o].prettify_status = "processed"
    THEN LET S1 == IF S.objs[o].analysis_status = "pending"
                   THEN AddAnalysisJob(Save(Set(S, o, "analysis_status", "processing"), o),
                                       o, "hook")
                   ELSE S
         IN  IF S1.objs[o].dechunker_status = "pending"
             THEN AddDechunkerJob(Save(Set(S1, o, "dechunker_status", "processing"), o),
                                  o, "hook")
             ELSE S1
    ELSE S

\* app.Save of an existing record: every field of the object is written to
\* the row, then the after-update hook runs on the object.
Save(S, o) ==
    LET S1 == [S EXCEPT !.store[o[1]] = S.objs[o]]
    IN  IF o[1][1] = "endpoints"
        THEN EndpointsAfterUpdate(S1, o)
        ELSE JsFilesAfterUpdate(S1, o)

\* OnRecordAfterCreateSuccess("endpoints")
EndpointsAfterCreate(S, o) ==
    IF S.objs[o].extraction_status = "pending"
    THEN AddExtractionJob(Save(Set(S, o, "extraction_status", "processing"), o), o, "hook")
    ELSE S

\* OnRecordAfterCreateSuccess("js_files").  GetJSFilePath resolves: the row
\* carries the URL under which SaveJSFile stored the file.
JsFilesAfterCreate(S, o) ==
    LET ty == S.objs[o].type
        S1 == [S EXCEPT !.objs[o] =
                  [@ EXCEPT !.prettify_status = "pending",
                            !.analysis_status = "pending",
                            !.sourcemap_status = "pending",
                            !.dechunker_status =
                                IF ty \in {"inline", "chunk"} THEN "processed" ELSE "pending",
                            !.created_at = S.now],
                         !.now = S.now + 1]
        S2 == [S1 EXCEPT !.objs[o] = [@ EXCEPT !.prettify_status = "processing",
                                              !.sourcemap_status = "processing"]]
    IN  AddSourcemapJob(AddPrettifyJob(Save(S2, o), o, "js", "hook"), o, "hook")


\* -------------------------------------------------------------- recovery
\* The sweeps with the dechunker sweep ahead of the analysis sweep.
SweepPoolSwapped(k) ==
    CASE k = 1 -> "extraction"
      [] k \in {2, 3} -> "prettify"
      [] k = 4 -> "sourcemap"
      [] k = 5 -> "dechunker"
      [] k = 6 -> "analysis"

\* recoverPendingJobs runs six sweeps; sweep k queries one collection on one
\* status field and submits every hit to one pool.
SweepPool(k) ==
    CASE k = 1 -> "extraction"
      [] k \in {2, 3} -> "prettify"
      [] k = 4 -> "sourcemap"
      [] k = 5 -> "analysis"
      [] k = 6 -> "dechunker"

SweepCollection(k) == IF k \in {1, 2} THEN "endpoints" ELSE "js_files"

\* A filter that also selects failed records.
RecoveryFilterFailed == {"pending", "processing", "failed"}

\* A filter that leaves out only the failed records.
RecoveryFilterNotFailed == {"pending", "processing", "processed"}

\* A recovery that re-sends pending records only (mutation of RecoveryFilter).
RecoveryFilterPending == {"pending"}

\* The status values the sweeps' filters select.
RecoveryFilter == {"pending", "processing"}

\* The sort argument "created_at" of FindRecordsByFilter: oldest first.
RECURSIVE SortByCreatedAt(_, _)
SortByCreatedAt(st, ids) ==
    IF ids = {} THEN <<>>
    ELSE LET m == CHOOSE r \in ids : \A q \in ids : st[r].created_at <= st[q].created_at
         IN  <<m>> \o SortByCreatedAt(st, ids \ {m})

FindRecordsByFilter(S, k) ==
    SortByCreatedAt(S.store,
        {id \in DOMAIN S.store :
            /\ id[1] = SweepCollection(k)
            /\ S.store[id][StatusField(SweepPool(k))] \in RecoveryFilter})

\* The loop of a sweep: one job per record found, made of the copy the query
\* loaded; the prettify sweeps build PrettifyJob{Record, App} (no FilePath).
RECURSIVE SubmitFound(_, _, _)
SubmitFound(S, k, ids) ==
    IF ids = <<>> THEN S
    ELSE LET o == <<Head(ids), k>>
             S1 == Load(S, o, S.store[Head(ids)])
         IN  SubmitFound(Submit(S1, SweepPool(k), [rec |-> o, file |-> ""], "recovery"),
                         k, Tail(ids))

Sweep(S, k) == SubmitFound(S, k, FindRecordsByFilter(S, k))

\* The pools RunDB starts before it registers the hooks and the bootstrap
\* callback.
StartedPools == Pools

\* js_files in the state of scenario S6: analysis left at processing, the
\* other three stages done.
InS6(st) ==
    {j \in JsFileIds \cap DOMAIN st :
        /\ st[j].analysis_status = "processing"
        /\ st[j].prettify_status = "processed"
        /\ st[j].sourcemap_status = "processed"
        /\ st[j].dechunker_status = "processed"}

\* The id of the next row of a collection (ids are opaque; rows are never
\* deleted, so the rows of a collection are numbered in insertion order).
NextId(st, coll) == <<coll, Cardinality({k \in DOMAIN st : k[1] = coll}) + 1>>

\* The store has room for another row.
Room(st) == Cardinality(DOMAIN st) < MaxRecords

\* ---------------------------------------------------------------- actions
NoQueue == [p \in Pools |-> <<>>]

Min(a, b) == IF a < b THEN a ELSE b

\* The jobs of a pool its workers can be holding: the oldest ones.
Heads(p) == 1..Min(Workers, Len(queue[p]))

\* The sequence without its i-th element.
Drop(q, i) == SubSeq(q, 1, i - 1) \o SubSeq(q, i + 1, Len(q))

\* The handler state once a worker has received job i of pool p.
Received(p, i) == [Cur EXCEPT !.queue[p] = Drop(@, i)]

\* Objects something still points to.
Referenced(q, a, h) ==
    h \cup UNION {{q[p][i].rec : i \in 1..Len(q[p])} : p \in Pools}
      \cup {x.job.rec : x \in a}
      \cup {x.js : x \in {y \in a : y.js # NoJs}}

\* The submissions of a handler that the queue refused.
Misses(log) == {<<ev.stage, ev.rec>> : ev \in {e \in log : ~e.ok}}

NoMiss == [now |-> {}, prev |-> {}]

\* The handler's result becomes the next state; unreferenced objects go.
Commit(S, a, h, run) ==
    /\ store' = S.store
    /\ queue' = S.queue
    /\ now' = S.now
    /\ hookLog' = S.hookLog
    /\ recLog' = S.recLog
    /\ active' = a
    /\ hooks' = h
    /\ lastRun' = run
    /\ objs' = [k \in DOMAIN S.objs \cap Referenced(S.queue, a, h) |-> S.objs[k]]
    /\ missed' = [missed EXCEPT !.now = @ \cup Misses(S.hookLog)]
    /\ UNCHANGED <<phase, running, rec, boots, cleanStop, s6, booted>>
    /\ UNCHANGED besidesPipe

\* ------------------------------------------------------- one worker pool
PoolKinds == {"checked", "direct"}

\* Threads: the pool's worker goroutines, and the goroutines that call the
\* pool from outside (RunDB, the terminate handler, request hooks, recovery).
PWorkers == 1..PoolWorkers
PCallers == (PoolWorkers + 1)..(PoolWorkers + PoolCallers)
Threads == PWorkers \cup PCallers
Jobs == 1..MaxJobs

NoRet == [op |-> "none", err |-> "nil"]
Ret(op, err) == [op |-> op, err |-> err]

\* NewPrettifyWorkerPool and its four siblings.
NewWorkerPool ==
    /\ isRunning = FALSE
    /\ jobQueue = <<>>
    /\ closed = FALSE
    /\ ctxDone = FALSE
    /\ mu = 0
    /\ workerWg = 0
    /\ pc = [t \in Threads |-> IF t \in PWorkers THEN "none" ELSE "idle"]
    /\ cur = [w \in PWorkers |-> 0]
    /\ sub = [t \in Threads |-> 0]
    /\ ret = [t \in Threads |-> NoRet]
    /\ jobStatus = [j \in Jobs |-> "none"]
    /\ nextJob = 1
    /\ closes = 0
    /\ spawned = 0
    /\ accepted = <<>>
    /\ started = <<>>
    /\ jobEnd = [j \in Jobs |-> "none"]
    /\ panicked = {}
    /\ crashed = FALSE

\* The process before RunDB has run.
PipelineDown ==
    /\ store = <<>>
    /\ objs = <<>>
    /\ queue = NoQueue
    /\ active = {}
    /\ hooks = {}
    /\ phase = "down"
    /\ running = [p \in Pools |-> FALSE]
    /\ rec = 0
    /\ now = 1
    /\ boots = 0
    /\ hookLog = {}
    /\ recLog = <<>>
    /\ lastRun = NoRun
    /\ cleanStop = FALSE
    /\ s6 = {}
    /\ booted = {}
    /\ missed = NoMiss

\* ------------------------------------------------ the files' registry
RegEndpoints == 1..RegJobs
Urls == {"u1", "u2"}
Hashes == {"h1", "h2"}
\* The content a fetched chunk can have: that of the external scripts.
ChunkHashes == {"h1"}
\* The structural hash of the HTML the browser renders, which is not the
\* submitted body.
HtmlHashes == {"s3"}

\* The scripts of the pages: two URLs serving the same content, and an
\* inline script whose URL is the first one's.
Scripts == {[url |-> "u1", hash |-> "h1", type |-> "normal"],
            [url |-> "u2", hash |-> "h1", type |-> "normal"],
            [url |-> "u1", hash |-> "h2", type |-> "inline"]}

\* What the browser captured in one pass: no script, or one; the mobile pass
\* marks an external script mobile.
Captured(mobile) ==
    {<<>>} \cup {<<IF mobile /\ sc.type = "normal"
                   THEN [sc EXCEPT !.type = "mobile"] ELSE sc>> : sc \in Scripts}

\* The endpoint row the tmp_endpoints hook made, with the body's structural
\* hash ("" when GenerateHTMLHash failed), once its job is queued; html is
\* the structural hash of the HTML its job's browser rendered ("" before).
QueuedEndpoint(h) ==
    [hash |-> h, js_files |-> {}, extraction_status |-> "processing", html |-> ""]

IdleJob == [pc |-> "queued", pass |-> "desktop", res |-> <<>>, ids |-> {},
            used |-> {}, err |-> FALSE]

IdleDechunker == [pc |-> "idle", rec |-> 0, url |-> "", hash |-> ""]

\* The hashes the hook gave the endpoints: it lets no second endpoint in
\* under a hash it finds, and it does not look when the hash is empty.
BodyHashes == [e \in RegEndpoints |-> IF e = 1 THEN "s1" ELSE ""]

Requests == 1..MaxTmp
\* The structural hash of a submitted body ("": GenerateHTMLHash failed).
SubmittedHashes == {"", "s1", "s2"}

\* No request yet.
NewIngest ==
    /\ tmpRows = {}
    /\ hookEps = <<>>
    /\ treq = [r \in Requests |-> [pc |-> "new", hash |-> ""]]
    /\ hookRet = [r \in Requests |-> "none"]

HookStages == {"prettify", "sourcemap", "analysis", "dechunker"}

\* An external script's record once its after-create hook has returned:
\* prettify and sourcemap jobs queued, analysis and dechunker pending.
CreatedJsFile ==
    /\ jsObj = [prettify_status |-> "processing", sourcemap_status |-> "processing",
                analysis_status |-> "pending", dechunker_status |-> "pending"]
    /\ hstack = [t \in HookStages |-> <<>>]
    /\ hjobs = [t \in {"analysis", "dechunker"} |-> 0]
    /\ hruns = [t \in HookStages |-> 0]

\* The analyzer's five arrays, in the order convertToFindings reads them.
Categories == <<"url", "graphql", "domxss", "event", "httpapi">>
\* The lines and columns an element can carry.
RawLines == {0 - 2, 0, 1, 3}
RawColumns == {0, 5}

\* The outputs of the analyzer: at most MaxFindings elements over the arrays.
AnalyzerResults ==
    {r \in [DOMAIN Categories ->
               {<<>>} \cup {<<[line |-> l, column |-> c]>> :
                               l \in RawLines, c \in RawColumns}] :
        Cardinality({k \in DOMAIN Categories : r[k] # <<>>}) <= MaxFindings}

\* No analyzer has run.
AnalyzerIdle ==
    /\ anResult = [k \in DOMAIN Categories |-> <<>>]
    /\ anFound = <<>>
    /\ findingRows = <<>>
    /\ anPc = "idle"

\* recoverPendingJobs' sweeps over js_files, in its order.
SweepOrder == <<"prettify", "sourcemap", "analysis", "dechunker">>
NoCopy == [hash |-> "none"]

\* A js_file as its after-create hook saved it.  A chunk whose SaveJSFile
\* failed has an empty hash; the extraction stage always sets one.
HookedJsFile(ty, h) ==
    [type |-> ty, hash |-> h,
     prettify_status |-> "processing", sourcemap_status |-> "processing",
     analysis_status |-> "pending",
     dechunker_status |-> IF ty \in {"inline", "chunk"} THEN "processed" ELSE "pending"]

LeftFiles == {HookedJsFile("normal", "h1"), HookedJsFile("chunk", "h1"),
              HookedJsFile("chunk", "")}

\* The process has not booted again.
ValidationIdle ==
    /\ vRow = HookedJsFile("normal", "h1")
    /\ vCopy = [s \in HookStages |-> NoCopy]
    /\ vNext = 0
    /\ vHelper = {}

\* The status fields of a js_file as its after-create hook saved them.
HookedStatuses(ty) ==
    [f \in {"prettify_status", "sourcemap_status", "analysis_status",
            "dechunker_status"} |-> HookedJsFile(ty, "h1")[f]]

\* An external script after its after-create hook: the prettify and the
\* sourcemap job are queued with the hook's record.
SavesIdle ==
    /\ fsRow = HookedStatuses("normal")
    /\ fsObj = HookedStatuses("normal")
    /\ fsJobs = {"prettify", "sourcemap"}
    /\ fsFailed = {}

\* What a URL or a data URI can hold: nothing that can be had (the fetch or
\* the decoding fails), bytes that are not JSON, JSON with sources and
\* contents but no version, a sourcemap without sources, a sourcemap.
Contents == {"nil", "notjson", "noversion", "empty", "map"}

\* The body's last sourceMappingURL comment: none, a URL, a data URI.
Comments == {"none", "url", "data"}

SourcemapInputs ==
    [readable : BOOLEAN, comment : Comments, at : Contents, fallback : Contents]

NoSourceMap == [err |-> FALSE, files |-> {}]

\* A js_file whose sourcemap job is queued.
SourcemapIdle ==
    /\ smIn = [readable |-> TRUE, comment |-> "none", at |-> "nil",
               fallback |-> "nil"]
    /\ smRes = NoSourceMap
    /\ smObj = "processing"
    /\ smRow = "processing"
    /\ smWritten = {}
    /\ smPc = "idle"

\* The segments a sources path is made of; the empty segment stands before
\* a leading "/", after a trailing one and between two.
Segments == {"", ".", "..", "a"}

SourcePaths == UNION {[1..n -> Segments] : n \in 1..MaxSegs}

\* A sourcemap with sources is at hand; nothing is written yet.
SourcesIdle ==
    /\ pSource = <<"a">>
    /\ pClean = <<>>
    /\ pWritten = {}
    /\ pPc = "idle"

\* An element of a page: its tag, a class attribute, an href attribute
\* (absent when empty) and its text.
Elements ==
    [tag : {"script", "a"}, class : {"", "c"}, href : {"", "u"},
     text : {"x", "y", "nonce-a1"}]

Pages == UNION {[1..n -> Elements] : n \in 1..MaxElements}

\* No page hashed yet.
HasherIdle ==
    /\ hDoc = <<>>
    /\ hHash = <<>>
    /\ hOther = <<>>
    /\ hOtherHash = <<>>
    /\ hPc = "idle"

\* The two HTML files of an endpoint with hash and mobile_hash, and the two
\* executions compared.
HtmlJobs == {"desktop", "mobile"}
Executions == {1, 2}

\* An endpoint whose extraction has ended: prettify_status is pending.
ExtractedEndpoint ==
    /\ pfOutcome = [j \in HtmlJobs |-> "ok"]
    /\ pfObj = [x \in Executions |-> "pending"]
    /\ pfRow = [x \in Executions |-> "pending"]
    /\ pfLeft = [x \in Executions |-> {}]
    /\ pfSaving = [x \in Executions |-> {}]

\* The goroutines that submit a batch, and the batches each may be given.
Submitters == {1, 2}

BatchesOf(t) == IF t = 1 THEN {<<1>>, <<1, 2>>} ELSE {<<3>>, <<3, 4>>}

\* The running extraction pool with an empty queue; no batch submitted.
NoBatch ==
    /\ bQueue = <<>>
    /\ bBatch = [t \in Submitters |-> <<>>]
    /\ bPc = [t \in Submitters |-> "idle"]
    /\ bIdx = [t \in Submitters |-> 0]
    /\ bErr = [t \in Submitters |-> FALSE]
    /\ bRet = [t \in Submitters |-> "none"]
    /\ bAccepted = <<>>

\* Nothing but the pipeline is looked at.
Elsewhere == NewIngest /\ CreatedJsFile /\ AnalyzerIdle /\ ValidationIdle /\ SavesIdle /\ SourcemapIdle /\ SourcesIdle /\ HasherIdle /\ ExtractedEndpoint /\ NoBatch

\* No file registered yet; the endpoints wait in the extraction queue.
NewRegistry(m, hs) ==
    /\ mobileOn = m
    /\ jsRows = <<>>
    /\ eps = [e \in RegEndpoints |-> QueuedEndpoint(hs[e])]
    /\ xw = [e \in RegEndpoints |-> IdleJob]
    /\ dq = <<>>
    /\ dw = IdleDechunker
    /\ swept = <<>>
    /\ dqLog = {}
    /\ byDechunker = {}
    /\ prettifyPath = [e \in RegEndpoints |-> "none"]

Init ==
    /\ PipelineDown
    /\ kind = "checked"
    /\ NewWorkerPool
    /\ NewRegistry(MobileExtractionEnabled, BodyHashes)
    /\ Elsewhere

\* RunDB: the five pools are created and started.
StartPools ==
    /\ phase = "down"
    /\ phase' = "starting"
    /\ running' = [p \in Pools |-> p \in StartedPools]
    /\ s6' = InS6(store)
    /\ booted' = DOMAIN store
    /\ lastRun' = NoRun
    /\ hookLog' = {}
    /\ UNCHANGED <<store, objs, queue, active, hooks, rec, now, boots, recLog, cleanStop>>
    /\ UNCHANGED besidesPipe
    /\ UNCHANGED missed

\* RunDB returns early if a Start fails; otherwise the hooks are registered,
\* the server starts and the bootstrap callback schedules the recovery.
OnBootstrap ==
    /\ phase = "starting"
    /\ \A p \in Pools : running[p]
    /\ phase' = "serving"
    /\ rec' = 1
    /\ lastRun' = NoRun
    /\ hookLog' = {}
    /\ UNCHANGED <<store, objs, queue, active, hooks, running, now, boots, recLog,
                   cleanStop, s6, booted>>
    /\ UNCHANGED besidesPipe
    /\ UNCHANGED missed

\* One sweep of recoverPendingJobs.
RecoverySweep ==
    /\ phase = "serving"
    /\ rec \in 1..6
    /\ rec' = rec + 1
    /\ LET S == Sweep(Cur, rec)
       IN  /\ store' = S.store
           /\ queue' = S.queue
           /\ now' = S.now
           /\ hookLog' = S.hookLog
           /\ recLog' = S.recLog
           /\ objs' = [k \in DOMAIN S.objs \cap Referenced(S.queue, active, hooks) |-> S.objs[k]]
    /\ lastRun' = NoRun
    /\ UNCHANGED <<active, hooks, phase, running, boots, cleanStop, s6, booted>>
    /\ UNCHANGED besidesPipe
    /\ UNCHANGED missed

\* recoverPendingJobs returns.
RecoveryDone ==
    /\ phase = "serving"
    /\ rec = 7
    /\ rec' = 8
    /\ recLog' = <<>>
    /\ lastRun' = NoRun
    /\ hookLog' = {}
    /\ UNCHANGED <<store, objs, queue, active, hooks, phase, running, now, boots,
                   cleanStop, s6, booted>>
    /\ UNCHANGED besidesPipe
    /\ UNCHANGED missed

\* tmp_endpoints after-create hook: a new endpoint row is inserted.  Clients
\* post once the start-up recovery is over.
TmpEndpointCreated(e) ==
    /\ phase = "serving"
    /\ rec = 8
    /\ Room(store)
    /\ e = NextId(store, "endpoints")
    /\ LET o == <<e, 0>>
           S == Insert(Load([Cur EXCEPT !.now = now + 1], o, NewEndpoint(now)), o)
       IN  Commit(S, active, hooks \cup {o}, NoRun)

\* ... whose own after-create hook runs inside that Save.
EndpointCreatedHook ==
    /\ phase = "serving"
    /\ \E o \in hooks :
          Commit(EndpointsAfterCreate(Cur, o), active, hooks \ {o}, NoRun)

Goto(a, b) == (active \ {a}) \cup {b}

\* Extraction worker: a job is received and processJob makes the desktop
\* browser pass.
ExtractBrowser(i) ==
    /\ phase = "serving"
    /\ running["extraction"]
    /\ i \in Heads("extraction")
    /\ Cardinality(active) < Workers
    /\ LET job == queue["extraction"][i]
           S == Received("extraction", i)
       IN  \E ok \in BOOLEAN :
              IF ok
              THEN Commit(S, active \cup {[job |-> job, pc |-> "saving", mob |-> FALSE,
                                           js |-> NoJs]}, hooks, NoRun)
              ELSE Commit(Save(Set(S, job.rec, "extraction_status", "failed"), job.rec),
                          active, hooks, NoRun)

\* saveProcessingResults: a captured resource is registered as a new js_file.
ExtractNewJs ==
    /\ Room(store)
    /\ \E a \in {x \in active : x.pc = "saving"} :
       \E j \in JsFileIds \cap {NextId(store, "js_files")} :
       \E ty \in {IF a.mob THEN "mobile" ELSE "normal", "inline"} :
          LET o == <<j, 0>>
          IN  Commit(Insert(Load(Cur, o, NewJsFile(ty)), o),
                     Goto(a, [a EXCEPT !.pc = "jsHook", !.js = o]), hooks, NoRun)

\* The js_files after-create hook, run inside the extraction worker's Save.
JsCreatedHook ==
    \E a \in {x \in active : x.pc = "jsHook"} :
       Commit(JsFilesAfterCreate(Cur, a.js),
              Goto(a, [a EXCEPT !.pc = "saving", !.js = NoJs]), hooks, NoRun)

\* saveProcessingResults: the endpoint is saved; with mobile extraction on,
\* the mobile pass follows the desktop one (its browser error is ignored, and
\* mobile_hash is set when SaveHTMLFile returned a hash).
ExtractSaveResults ==
    \E a \in {x \in active : x.pc = "saving"} :
       LET S == Save(Cur, a.job.rec)
       IN  IF MobileExtractionEnabled /\ ~a.mob
           THEN \E h \in BOOLEAN :
                   Commit(IF h THEN Set(S, a.job.rec, "mobile_hash", TRUE) ELSE S,
                          Goto(a, [a EXCEPT !.mob = TRUE]), hooks, NoRun)
           ELSE Commit(S, Goto(a, [a EXCEPT !.pc = "final"]), hooks, NoRun)

\* processJob: extraction_status flips to processed.
ExtractFinal ==
    \E a \in {x \in active : x.pc = "final"} :
       Commit(Save(Set(Cur, a.job.rec, "extraction_status", "processed"), a.job.rec),
              active \ {a}, hooks, NoRun)

\* Prettify worker: processJob.  A job without a file path fails at once;
\* ok: the prettifier succeeds on the record's file.
PrettifyRun(i) ==
    /\ phase = "serving"
    /\ running["prettify"]
    /\ i \in Heads("prettify")
    /\ \E ok \in BOOLEAN :
          LET job == queue["prettify"][i]
              o == job.rec
              res == IF job.file = "" THEN "failed"
                     ELSE IF ok THEN "processed" ELSE "failed"
          IN  Commit(Save(Set(Received("prettify", i), o, "prettify_status", res), o),
                     active, hooks,
                     [stage |-> "prettify", rec |-> o[1], origin |-> o[2], ok |-> ok])

\* Sourcemap worker: processJob.
SourcemapRun(i) ==
    /\ phase = "serving"
    /\ running["sourcemap"]
    /\ i \in Heads("sourcemap")
    /\ \E ok \in BOOLEAN :
          LET o == queue["sourcemap"][i].rec
          IN  Commit(Save(Set(Received("sourcemap", i), o, "sourcemap_status",
                              IF ok THEN "processed" ELSE "failed"), o),
                     active, hooks, NoRun)

\* Analysis worker: processJob.
AnalysisRun(i) ==
    /\ phase = "serving"
    /\ running["analysis"]
    /\ i \in Heads("analysis")
    /\ \E ok \in BOOLEAN :
          LET o == queue["analysis"][i].rec
          IN  Commit(Save(Set(Received("analysis", i), o, "analysis_status",
                              IF ok THEN "processed" ELSE "failed"), o),
                     active, hooks, NoRun)

\* fetchAndSaveChunks: a fetched chunk is registered as a new js_file, and its
\* after-create hook runs inside that Save.
SaveChunk(S) ==
    LET o == <<NextId(S.store, "js_files"), 0>>
    IN  IF Room(S.store)
        THEN JsFilesAfterCreate(Insert(Load(S, o, NewJsFile("chunk")), o), o)
        ELSE S

\* Dechunker worker: processJob.  out: the file cannot be read, it names no
\* chunk, or it names one.
DechunkerRun(i) ==
    /\ phase = "serving"
    /\ running["dechunker"]
    /\ i \in Heads("dechunker")
    /\ \E out \in {"failed", "none", "chunks"} :
          LET o == queue["dechunker"][i].rec
              S == Received("dechunker", i)
          IN  CASE out = "failed" ->
                     Commit(Save(Set(S, o, "dechunker_status", "failed"), o),
                            active, hooks, NoRun)
                [] out = "none" ->
                     Commit(Save(Set(S, o, "dechunker_status", "processed"), o),
                            active, hooks, NoRun)
                [] out = "chunks" ->
                     Commit(Save(Set(SaveChunk(Save(S, o)), o, "dechunker_status",
                                     "processed"), o),
                            active, hooks, NoRun)

\* The signal handler's os.Exit(0), or a crash: everything in memory is gone.
Exit ==
    /\ phase # "down"
    /\ boots < MaxBoots
    /\ phase' = "down"
    /\ boots' = boots + 1
    /\ queue' = NoQueue
    /\ active' = {}
    /\ objs' = <<>>
    /\ hooks' = {}
    /\ rec' = 0
    /\ running' = [p \in Pools |-> FALSE]
    /\ hookLog' = {}
    /\ recLog' = <<>>
    /\ lastRun' = NoRun
    /\ cleanStop' = (hooks = {} /\ active = {})
    /\ s6' = {}
    /\ booted' = {}
    /\ missed' = [now |-> {},
                  prev |-> {m \in missed.now :
                              store[m[2]][StatusField(m[1])] = "processing"}]
    /\ UNCHANGED <<store, now>>
    /\ UNCHANGED besidesPipe

Next ==
    \/ StartPools
    \/ OnBootstrap
    \/ RecoverySweep
    \/ RecoveryDone
    \/ \E e \in EndpointIds : TmpEndpointCreated(e)
    \/ EndpointCreatedHook
    \/ \E i \in 1..Workers : ExtractBrowser(i)
    \/ ExtractNewJs
    \/ JsCreatedHook
    \/ ExtractSaveResults
    \/ ExtractFinal
    \/ \E i \in 1..Workers : PrettifyRun(i)
    \/ \E i \in 1..Workers : SourcemapRun(i)
    \/ \E i \in 1..Workers : AnalysisRun(i)
    \/ \E i \in 1..Workers : DechunkerRun(i)
    \/ Exit

Spec == Init /\ [][Next]_vars

\* --------------------------------------------- one worker pool: its steps
\* A caller is back at "idle" after a call; a worker whose job saved a record
\* and so ran a hook is back in its job.
Home(t) == IF t \in PWorkers THEN "job" ELSE "idle"

Return(t, r) ==
    /\ pc' = [pc EXCEPT ![t] = Home(t)]
    /\ ret' = [ret EXCEPT ![t] = r]
    /\ sub' = [sub EXCEPT ![t] = 0]

\* A Start that never refuses (mutation of StartRefuses).
StartRefusesNever == FALSE

\* A Stop that always goes on to close (mutation of StopReturnsEarly).
StopNeverReturnsEarly == FALSE

\* Start: "if p.isRunning".
StartRefuses == isRunning

\* Stop: "if !p.isRunning".
StopReturnsEarly == ~isRunning

\* A channel that always takes one more (mutation of HasRoom).
HasRoomAlways(q) == TRUE

\* A send on the buffered channel does not block while there is room.
HasRoom(q) == Len(q) < PoolQueueSize

\* A receive that takes the newest element (mutation of RecvIndex).
RecvIndexLast(q) == Len(q)

\* A receive takes the oldest element of the channel.
RecvIndex(q) == 1

\* context.Background(), the context the jobs carry, is never done; the
\* browser call drops the context it is handed.
JobContextDone == FALSE

\* The cases of SubmitJob's select that are ready: a send (on a closed
\* channel it is ready, and panics), the context's Done; else the default.
SelectSubmit ==
    LET ready == (IF closed \/ HasRoom(jobQueue) THEN {"send"} ELSE {})
                 \cup (IF ctxDone THEN {"done"} ELSE {})
    IN  IF ready = {} THEN {"default"} ELSE ready

\* The cases of the select in AddExtractionJob and AddSourcemapJob.
SelectAdd == IF closed \/ HasRoom(jobQueue) THEN {"send"} ELSE {"default"}

ErrOf(o) ==
    CASE o = "send" -> "nil"
      [] o = "done" -> "shutting down"
      [] o = "default" -> "queue is full"
      [] OTHER -> "not running"

\* What a submission's outcome does.  A send on the closed channel panics,
\* and no caller recovers.
Outcome(t, o) ==
    /\ IF o = "send" /\ closed
          THEN /\ crashed' = TRUE
               /\ UNCHANGED <<jobQueue, accepted, pc, ret, sub>>
          ELSE /\ crashed' = crashed
               /\ jobQueue' = IF o = "send" THEN Append(jobQueue, sub[t]) ELSE jobQueue
               /\ accepted' = IF o = "send" THEN Append(accepted, sub[t]) ELSE accepted
               /\ Return(t, Ret("submit", ErrOf(o)))
    /\ UNCHANGED <<kind, isRunning, closed, ctxDone, mu, workerWg, cur, jobStatus,
                   nextJob, closes, spawned, started, jobEnd, panicked>>
    /\ UNCHANGED besidesPool

\* A goroutine calls Start.  In the repository a pool is started where it is
\* made (RunDB, AddSequentialExtractionJobs) and stopped later: no Start
\* follows or overlaps a Stop.
CallStart(t) ==
    /\ ~crashed
    /\ pc[t] = "idle"
    /\ ~closed
    /\ \A x \in PCallers : pc[x] \notin {"stop", "wait"}
    /\ pc' = [pc EXCEPT ![t] = "start"]
    /\ ret' = [ret EXCEPT ![t] = NoRet]
    /\ UNCHANGED <<kind, isRunning, jobQueue, closed, ctxDone, mu, workerWg, cur, sub,
                   jobStatus, nextJob, closes, spawned, accepted, started, jobEnd,
                   panicked, crashed>>
    /\ UNCHANGED besidesPool

\* Start, under p.mu.Lock().
Start(t) ==
    /\ ~crashed
    /\ pc[t] = "start"
    /\ mu = 0
    /\ IF StartRefuses
          THEN /\ ret' = [ret EXCEPT ![t] = Ret("start", "already running")]
               /\ pc' = [pc EXCEPT ![t] = "idle"]
               /\ UNCHANGED <<isRunning, workerWg, spawned>>
          ELSE /\ ret' = [ret EXCEPT ![t] = Ret("start", "nil")]
               /\ pc' = [x \in Threads |->
                           IF x \in PWorkers THEN "select"
                           ELSE IF x = t THEN "idle" ELSE pc[x]]
               /\ workerWg' = workerWg + PoolWorkers
               /\ spawned' = spawned + PoolWorkers
               /\ isRunning' = TRUE
    /\ UNCHANGED <<kind, jobQueue, closed, ctxDone, mu, cur, sub, jobStatus, nextJob,
                   closes, accepted, started, jobEnd, panicked, crashed>>
    /\ UNCHANGED besidesPool

\* A goroutine calls Stop.
CallStop(t) ==
    /\ ~crashed
    /\ pc[t] = "idle"
    /\ \A x \in PCallers : pc[x] # "start"
    /\ pc' = [pc EXCEPT ![t] = "stop"]
    /\ ret' = [ret EXCEPT ![t] = NoRet]
    /\ UNCHANGED <<kind, isRunning, jobQueue, closed, ctxDone, mu, workerWg, cur, sub,
                   jobStatus, nextJob, closes, spawned, accepted, started, jobEnd,
                   panicked, crashed>>
    /\ UNCHANGED besidesPool

\* Stop up to workerWg.Wait(): the lock is taken, the context cancelled and
\* the channel closed.  The lock stays held.
Stop(t) ==
    /\ ~crashed
    /\ pc[t] = "stop"
    /\ mu = 0
    /\ IF StopReturnsEarly
          THEN /\ ret' = [ret EXCEPT ![t] = Ret("stop", "nil")]
               /\ pc' = [pc EXCEPT ![t] = "idle"]
               /\ UNCHANGED <<mu, ctxDone, closed, closes>>
          ELSE /\ mu' = t
               /\ ctxDone' = TRUE
               /\ closed' = TRUE
               /\ closes' = closes + 1
               /\ pc' = [pc EXCEPT ![t] = "wait"]
               /\ UNCHANGED ret
    /\ UNCHANGED <<kind, isRunning, jobQueue, workerWg, cur, sub, jobStatus, nextJob,
                   spawned, accepted, started, jobEnd, panicked, crashed>>
    /\ UNCHANGED besidesPool

\* workerWg.Wait() returns: Stop marks the pool and unlocks.
StopReturn(t) ==
    /\ ~crashed
    /\ pc[t] = "wait"
    /\ workerWg = 0
    /\ isRunning' = FALSE
    /\ mu' = 0
    /\ ret' = [ret EXCEPT ![t] = Ret("stop", "nil")]
    /\ pc' = [pc EXCEPT ![t] = "idle"]
    /\ UNCHANGED <<kind, jobQueue, closed, ctxDone, workerWg, cur, sub, jobStatus,
                   nextJob, closes, spawned, accepted, started, jobEnd, panicked,
                   crashed>>
    /\ UNCHANGED besidesPool

\* A hook or the recovery calls the pool's Add*Job: from a request's
\* goroutine, or from a worker whose job has just saved a record (the
\* dechunker's Save of has_chunks runs the js_files hook, which calls
\* AddDechunkerJob for a record still pending).
CallAddJob(t) ==
    /\ ~crashed
    /\ pc[t] = Home(t)
    /\ t \in PWorkers => kind = "checked"
    /\ nextJob <= MaxJobs
    /\ nextJob' = nextJob + 1
    /\ sub' = [sub EXCEPT ![t] = nextJob]
    /\ jobStatus' = [jobStatus EXCEPT ![nextJob] = "processing"]
    /\ pc' = [pc EXCEPT ![t] = IF kind = "checked" THEN "isrunning" ELSE "add"]
    /\ ret' = [ret EXCEPT ![t] = NoRet]
    /\ UNCHANGED <<kind, isRunning, jobQueue, closed, ctxDone, mu, workerWg, cur,
                   closes, spawned, accepted, started, jobEnd, panicked, crashed>>
    /\ UNCHANGED besidesPool

\* The recovery calls SubmitJob itself.
CallSubmitJob(t) ==
    /\ ~crashed
    /\ pc[t] = "idle"
    /\ kind = "checked"
    /\ nextJob <= MaxJobs
    /\ nextJob' = nextJob + 1
    /\ sub' = [sub EXCEPT ![t] = nextJob]
    /\ jobStatus' = [jobStatus EXCEPT ![nextJob] = "processing"]
    /\ pc' = [pc EXCEPT ![t] = "rlock"]
    /\ ret' = [ret EXCEPT ![t] = NoRet]
    /\ UNCHANGED <<kind, isRunning, jobQueue, closed, ctxDone, mu, workerWg, cur,
                   closes, spawned, accepted, started, jobEnd, panicked, crashed>>
    /\ UNCHANGED besidesPool

\* IsRunning, under p.mu.RLock(), as AddPrettifyJob, AddAnalysisJob and
\* AddDechunkerJob call it.
IsRunning(t) ==
    /\ ~crashed
    /\ pc[t] = "isrunning"
    /\ mu = 0
    /\ IF isRunning
          THEN /\ pc' = [pc EXCEPT ![t] = "rlock"]
               /\ UNCHANGED <<ret, sub>>
          ELSE Return(t, Ret("submit", "not running"))
    /\ UNCHANGED <<kind, isRunning, jobQueue, closed, ctxDone, mu, workerWg, cur,
                   jobStatus, nextJob, closes, spawned, accepted, started, jobEnd,
                   panicked, crashed>>
    /\ UNCHANGED besidesPool

\* SubmitJob, under p.mu.RLock().
SubmitJob(t) ==
    /\ ~crashed
    /\ pc[t] = "rlock"
    /\ mu = 0
    /\ IF ~isRunning
          THEN Outcome(t, "stopped")
          ELSE \E o \in SelectSubmit : Outcome(t, o)

\* AddExtractionJob, AddSourcemapJob: no lock, no look at isRunning.
AddJobDirect(t) ==
    /\ ~crashed
    /\ pc[t] = "add"
    /\ \E o \in SelectAdd : Outcome(t, o)

\* worker: the select takes a job from the channel.
Receive(w) ==
    /\ ~crashed
    /\ pc[w] = "select"
    /\ jobQueue # <<>>
    /\ LET i == RecvIndex(jobQueue)
       IN  /\ cur' = [cur EXCEPT ![w] = jobQueue[i]]
           /\ started' = Append(started, jobQueue[i])
           /\ jobQueue' = Drop(jobQueue, i)
    /\ pc' = [pc EXCEPT ![w] = "job"]
    /\ UNCHANGED <<kind, isRunning, closed, ctxDone, mu, workerWg, sub, ret, jobStatus,
                   nextJob, closes, spawned, accepted, jobEnd, panicked, crashed>>
    /\ UNCHANGED besidesPool

\* worker: the select finds the channel closed and empty, or the context
\* done (with jobs still in the channel or not); the deferred Done runs.
WorkerReturn(w) ==
    /\ ~crashed
    /\ pc[w] = "select"
    /\ (closed /\ jobQueue = <<>>) \/ ctxDone
    /\ pc' = [pc EXCEPT ![w] = "exit"]
    /\ workerWg' = workerWg - 1
    /\ UNCHANGED <<kind, isRunning, jobQueue, closed, ctxDone, mu, cur, sub, ret,
                   jobStatus, nextJob, closes, spawned, accepted, started, jobEnd,
                   panicked, crashed>>
    /\ UNCHANGED besidesPool

\* processJob returns: the blocking work is over and the status saved.
JobDone(w) ==
    /\ ~crashed
    /\ pc[w] = "job"
    /\ \E st \in Terminal : jobStatus' = [jobStatus EXCEPT ![cur[w]] = st]
    /\ jobEnd' = [jobEnd EXCEPT ![cur[w]] =
                     IF JobContextDone THEN "cancelled" ELSE "completed"]
    /\ cur' = [cur EXCEPT ![w] = 0]
    /\ pc' = [pc EXCEPT ![w] = "select"]
    /\ UNCHANGED <<kind, isRunning, jobQueue, closed, ctxDone, mu, workerWg, sub, ret,
                   nextJob, closes, spawned, accepted, started, panicked, crashed>>
    /\ UNCHANGED besidesPool

\* processJob panics: worker has no recover, the runtime ends the process.
JobPanic(w) ==
    /\ ~crashed
    /\ pc[w] = "job"
    /\ panicked' = panicked \cup {cur[w]}
    /\ crashed' = TRUE
    /\ UNCHANGED <<kind, isRunning, jobQueue, closed, ctxDone, mu, workerWg, pc, cur,
                   sub, ret, jobStatus, nextJob, closes, spawned, accepted, started,
                   jobEnd>>
    /\ UNCHANGED besidesPool

PoolInit ==
    /\ PipelineDown
    /\ kind \in PoolKinds
    /\ NewWorkerPool
    /\ NewRegistry(MobileExtractionEnabled, BodyHashes)
    /\ Elsewhere

PoolNext ==
    \/ \E t \in PCallers : CallStart(t)
    \/ \E t \in PCallers : Start(t)
    \/ \E t \in PCallers : CallStop(t)
    \/ \E t \in PCallers : Stop(t)
    \/ \E t \in PCallers : StopReturn(t)
    \/ \E t \in Threads : CallAddJob(t)
    \/ \E t \in PCallers : CallSubmitJob(t)
    \/ \E t \in Threads : IsRunning(t)
    \/ \E t \in Threads : SubmitJob(t)
    \/ \E t \in Threads : AddJobDirect(t)
    \/ \E w \in PWorkers : Receive(w)
    \/ \E w \in PWorkers : WorkerReturn(w)
    \/ \E w \in PWorkers : JobDone(w)
    \/ \E w \in PWorkers : JobPanic(w)

PoolSpec == PoolInit /\ [][PoolNext]_vars

\* ------------------------------------- one worker pool, started at any time
\* A goroutine calls Start whenever it likes, also after a Stop.
CallStartAnytime(t) ==
    /\ ~crashed
    /\ pc[t] = "idle"
    /\ spawned < MaxStarts * PoolWorkers
    /\ pc' = [pc EXCEPT ![t] = "start"]
    /\ ret' = [ret EXCEPT ![t] = NoRet]
    /\ UNCHANGED <<kind, isRunning, jobQueue, closed, ctxDone, mu, workerWg, cur, sub,
                   jobStatus, nextJob, closes, spawned, accepted, started, jobEnd,
                   panicked, crashed>>
    /\ UNCHANGED besidesPool

\* A goroutine calls Stop whenever it likes.
CallStopAnytime(t) ==
    /\ ~crashed
    /\ pc[t] = "idle"
    /\ pc' = [pc EXCEPT ![t] = "stop"]
    /\ ret' = [ret EXCEPT ![t] = NoRet]
    /\ UNCHANGED <<kind, isRunning, jobQueue, closed, ctxDone, mu, workerWg, cur, sub,
                   jobStatus, nextJob, closes, spawned, accepted, started, jobEnd,
                   panicked, crashed>>
    /\ UNCHANGED besidesPool

\* Stop on a pool whose channel is open, or that is not running.
StopOpen(t) ==
    /\ ~(isRunning /\ closed)
    /\ Stop(t)

\* Stop on a running pool whose channel an earlier Stop has closed: the
\* close panics.
StopPanics(t) ==
    /\ ~crashed
    /\ pc[t] = "stop"
    /\ mu = 0
    /\ isRunning /\ closed
    /\ crashed' = TRUE
    /\ UNCHANGED <<kind, isRunning, jobQueue, closed, ctxDone, mu, workerWg, pc, cur,
                   sub, ret, jobStatus, nextJob, closes, spawned, accepted, started,
                   jobEnd, panicked>>
    /\ UNCHANGED besidesPool

RestartNext ==
    \/ \E t \in PCallers : CallStartAnytime(t)
    \/ \E t \in PCallers : Start(t)
    \/ \E t \in PCallers : CallStopAnytime(t)
    \/ \E t \in PCallers : StopOpen(t)
    \/ \E t \in PCallers : StopPanics(t)
    \/ \E t \in PCallers : StopReturn(t)
    \/ \E t \in Threads : CallAddJob(t)
    \/ \E t \in PCallers : CallSubmitJob(t)
    \/ \E t \in Threads : IsRunning(t)
    \/ \E t \in Threads : SubmitJob(t)
    \/ \E w \in PWorkers : Receive(w)
    \/ \E w \in PWorkers : WorkerReturn(w)
    \/ \E w \in PWorkers : JobDone(w)
    \/ \E w \in PWorkers : JobPanic(w)

RestartSpec == Init /\ [][RestartNext]_vars

\* ------------------------------------------ the files' registry: steps
RegFrame(changed) ==
    /\ UNCHANGED besidesReg
    /\ mobileOn' = mobileOn
    /\ "jsRows" \in changed \/ jsRows' = jsRows
    /\ "eps" \in changed \/ eps' = eps
    /\ "xw" \in changed \/ xw' = xw
    /\ "dq" \in changed \/ (dq' = dq /\ dqLog' = dqLog)
    /\ "dw" \in changed \/ dw' = dw
    /\ "swept" \in changed \/ swept' = swept
    /\ "byDechunker" \in changed \/ byDechunker' = byDechunker
    /\ "prettifyPath" \in changed \/ prettifyPath' = prettifyPath

\* FindRecordsByFilter's order (created_at): the rows in insertion order.
RECURSIVE SortByIndex(_)
SortByIndex(ids) ==
    IF ids = {} THEN <<>>
    ELSE LET i == CHOOSE x \in ids : \A y \in ids : x <= y
         IN  <<i>> \o SortByIndex(ids \ {i})

\* checkExistingJSFile: "url = {:url} || hash = {:hash}", the first row found.
CheckExistingJSFile(rows, url, hash) ==
    LET found == {i \in DOMAIN rows : rows[i].url = url \/ rows[i].hash = hash}
    IN  IF found = {} THEN 0 ELSE CHOOSE i \in found : \A k \in found : i <= k

\* fetchAndSaveChunks' lookup: "url = {:url}".
ChunkExists(rows, url) == \E i \in DOMAIN rows : rows[i].url = url

FirstDechunkerStatusPending(ty) == "pending"

\* The js_files after-create hook's dechunker_status.
FirstDechunkerStatus(ty) == IF ty \in {"inline", "chunk"} THEN "processed" ELSE "pending"

\* The row app.Save(newRecord) inserts, with the statuses its after-create
\* hook saves; the hook saves none when GetJSFilePath fails.
JsRow(url, hash, ty, parent, hooked) ==
    [url |-> url, hash |-> hash, type |-> ty, parent_id |-> parent,
     has_chunks |-> FALSE,
     dechunker_status |-> IF hooked THEN FirstDechunkerStatus(ty) ELSE ""]

\* saveProcessingResults, after the loop over the captured scripts.
AfterLoop(w) == IF w.res = <<>> THEN "saveEp" ELSE "check"

\* The extraction job fails: extraction_status = failed, and processJob returns.
Failed(e) ==
    /\ eps' = [eps EXCEPT ![e].extraction_status = "failed"]
    /\ xw' = [xw EXCEPT ![e].pc = "done", ![e].err = TRUE]

\* processJob: the desktop browser pass, and the head of
\* saveProcessingResults: SaveHTMLFile returns the structural hash of the
\* HTML it wrote, or "" when hashing or writing failed, and hash is set when
\* that is not empty.
XBrowser(e) ==
    /\ xw[e].pc = "queued"
    /\ \/ Failed(e)
       \/ \E html \in HtmlHashes, res \in Captured(FALSE), ok \in BOOLEAN :
             LET w == [xw[e] EXCEPT !.res = res, !.ids = {}, !.err = ~ok]
             IN  /\ xw' = [xw EXCEPT ![e] = [w EXCEPT !.pc = AfterLoop(w)]]
                 /\ eps' = [eps EXCEPT ![e].html = html,
                                        ![e].hash = IF ok THEN html ELSE @]
    /\ RegFrame({"eps", "xw"})

\* processJob: the mobile browser pass; its error is dropped and the pass
\* goes on with no HTML and no script.  SaveHTMLFile's hash goes to
\* mobile_hash.
XMobileBrowser(e) ==
    /\ xw[e].pc = "mbrowser"
    /\ \/ xw' = [xw EXCEPT ![e].pc = "saveEp", ![e].res = <<>>, ![e].ids = {},
                           ![e].err = TRUE]
       \/ \E res \in Captured(TRUE) :
             LET w == [xw[e] EXCEPT !.res = res, !.ids = {}]
             IN  xw' = [xw EXCEPT ![e] = [w EXCEPT !.pc = AfterLoop(w)]]
    /\ RegFrame({"xw"})

\* saveProcessingResults: the lookup for one captured script.
XCheck(e) ==
    /\ xw[e].pc = "check"
    /\ LET r == Head(xw[e].res)
           id == CheckExistingJSFile(jsRows, r.url, r.hash)
           w == [xw[e] EXCEPT !.res = Tail(@)]
       IN  xw' = [xw EXCEPT ![e] =
                     IF id # 0
                     THEN [w EXCEPT !.ids = @ \cup {id}, !.used = @ \cup {id},
                                    !.pc = AfterLoop(w)]
                     ELSE [xw[e] EXCEPT !.pc = "insert"]]
    /\ RegFrame({"xw"})

\* saveProcessingResults: the script is saved as a new js_file.
XInsert(e) ==
    /\ xw[e].pc = "insert"
    /\ Len(jsRows) < MaxJs
    /\ LET r == Head(xw[e].res)
           id == Len(jsRows) + 1
           w == [xw[e] EXCEPT !.res = Tail(@)]
       IN  /\ \E hooked \in BOOLEAN :
                 jsRows' = Append(jsRows, JsRow(r.url, r.hash, r.type, 0, hooked))
           /\ xw' = [xw EXCEPT ![e] =
                        [w EXCEPT !.ids = @ \cup {id}, !.used = @ \cup {id},
                                  !.pc = AfterLoop(w)]]
    /\ RegFrame({"jsRows", "xw"})

\* saveProcessingResults: js_files is set to this pass's ids and the endpoint
\* saved; a Save error fails the job.  With mobile extraction on, the mobile
\* pass follows the desktop one.
XSaveEndpoint(e) ==
    /\ xw[e].pc = "saveEp"
    /\ \/ Failed(e)
       \/ /\ eps' = [eps EXCEPT ![e].js_files = xw[e].ids]
          /\ xw' = [xw EXCEPT ![e] =
                       IF mobileOn /\ xw[e].pass = "desktop"
                       THEN [@ EXCEPT !.pc = "mbrowser", !.pass = "mobile"]
                       ELSE [@ EXCEPT !.pc = "final"]]
    /\ RegFrame({"eps", "xw"})

\* processJob: extraction_status = processed; the Save runs the endpoints
\* after-update hook, which at prettify_status pending builds the HTML path
\* from the hash and queues the prettify job, unless GetHTMLFilePath fails.
XFinal(e) ==
    /\ xw[e].pc = "final"
    /\ eps' = [eps EXCEPT ![e].extraction_status = "processed"]
    /\ \/ prettifyPath' = prettifyPath
       \/ /\ prettifyPath[e] = "none"
          /\ prettifyPath' = [prettifyPath EXCEPT ![e] = eps[e].hash]
    /\ xw' = [xw EXCEPT ![e].pc = "done"]
    /\ RegFrame({"eps", "xw", "prettifyPath"})

\* The js_files after-update hook, once the file is prettified: a pending
\* dechunker_status becomes processing and the file is queued.
JsUpdateHook(j) ==
    /\ j \in DOMAIN jsRows
    /\ jsRows[j].dechunker_status = "pending"
    /\ jsRows' = [jsRows EXCEPT ![j].dechunker_status = "processing"]
    /\ dq' = Append(dq, j)
    /\ dqLog' = dqLog \cup {j}
    /\ RegFrame({"jsRows", "dq"})

\* The process exits and boots again, once: the jobs in flight and the
\* queues are gone, and recoverPendingJobs queues the endpoints and the files
\* its filters find.
Restart ==
    /\ swept = <<>>
    /\ swept' = <<DOMAIN jsRows>>
    /\ xw' = [e \in RegEndpoints |->
                 IF eps[e].extraction_status \in RecoveryFilter
                 THEN IdleJob
                 ELSE [xw[e] EXCEPT !.pc = "done"]]
    /\ dw' = IdleDechunker
    /\ LET found == {j \in DOMAIN jsRows : jsRows[j].dechunker_status \in RecoveryFilter}
       IN  /\ dq' = SortByIndex(found)
           /\ dqLog' = dqLog \cup found
    /\ RegFrame({"xw", "dq", "dw", "swept"})

\* Dechunker processJob: the file cannot be read, names no chunk, or names
\* one, of some URL and content.
DStart ==
    /\ dw.pc = "idle"
    /\ dq # <<>>
    /\ dq' = Tail(dq)
    /\ dqLog' = dqLog
    /\ LET j == Head(dq)
       IN  \/ /\ jsRows' = [jsRows EXCEPT ![j].dechunker_status = "failed"]
              /\ dw' = dw
           \/ /\ jsRows' = [jsRows EXCEPT ![j].dechunker_status = "processed"]
              /\ dw' = dw
           \/ \E u \in Urls, h \in ChunkHashes :
                 /\ jsRows' = [jsRows EXCEPT ![j].has_chunks = TRUE]
                 /\ dw' = [pc |-> "check", rec |-> j, url |-> u, hash |-> h]
    /\ RegFrame({"jsRows", "dq", "dw"})

\* fetchAndSaveChunks: the lookup by URL, then the fetch.
DCheck ==
    /\ dw.pc = "check"
    /\ dw' = [dw EXCEPT !.pc = IF ChunkExists(jsRows, dw.url) THEN "final" ELSE "insert"]
    /\ RegFrame({"dw"})

\* fetchAndSaveChunks: the fetch failed, or the chunk is saved as a js_file.
DInsert ==
    /\ dw.pc = "insert"
    /\ \/ /\ UNCHANGED <<jsRows, byDechunker>>
       \/ /\ Len(jsRows) < MaxJs
          /\ \E hooked \in BOOLEAN :
                jsRows' = Append(jsRows, JsRow(dw.url, dw.hash, "chunk", dw.rec, hooked))
          /\ byDechunker' = byDechunker \cup {Len(jsRows) + 1}
    /\ dw' = [dw EXCEPT !.pc = "final"]
    /\ RegFrame({"jsRows", "dw", "byDechunker"})

\* Dechunker processJob: dechunker_status = processed.
DFinal ==
    /\ dw.pc = "final"
    /\ jsRows' = [jsRows EXCEPT ![dw.rec].dechunker_status = "processed"]
    /\ dw' = IdleDechunker
    /\ RegFrame({"jsRows", "dw"})

RegInit ==
    /\ PipelineDown
    /\ kind = "checked"
    /\ NewWorkerPool
    /\ \E m \in BOOLEAN : NewRegistry(m, BodyHashes)
    /\ Elsewhere

\* The extraction workers, each on its endpoint.
ExtNext ==
    \/ \E e \in RegEndpoints : XBrowser(e)
    \/ \E e \in RegEndpoints : XMobileBrowser(e)
    \/ \E e \in RegEndpoints : XCheck(e)
    \/ \E e \in RegEndpoints : XInsert(e)
    \/ \E e \in RegEndpoints : XSaveEndpoint(e)
    \/ \E e \in RegEndpoints : XFinal(e)

ExtSpec == RegInit /\ [][ExtNext]_vars

\* One extraction worker takes the endpoints in the queue's order.
Turn(e) == \A k \in RegEndpoints : k < e => xw[k].pc = "done"

\* The steps of that one worker.
SeqBrowser(e) == Turn(e) /\ XBrowser(e)
SeqCheck(e) == Turn(e) /\ XCheck(e)
SeqInsert(e) == Turn(e) /\ XInsert(e)
SeqSaveEndpoint(e) == Turn(e) /\ XSaveEndpoint(e)
SeqFinal(e) == Turn(e) /\ XFinal(e)

\* One extraction worker, the js_files hook, one dechunker worker and a
\* restart; mobile extraction is off, as configured.
DechNext ==
    \/ \E e \in RegEndpoints : SeqBrowser(e)
    \/ \E e \in RegEndpoints : SeqCheck(e)
    \/ \E e \in RegEndpoints : SeqInsert(e)
    \/ \E e \in RegEndpoints : SeqSaveEndpoint(e)
    \/ \E e \in RegEndpoints : SeqFinal(e)
    \/ \E j \in 1..MaxJs : JsUpdateHook(j)
    \/ Restart
    \/ DStart
    \/ DCheck
    \/ DInsert
    \/ DFinal

DechSpec == Init /\ [][DechNext]_vars

\* ------------------------------------------------------------ the ingest
TmpFrame(changed) ==
    /\ UNCHANGED besidesTmp
    /\ "tmpRows" \in changed \/ tmpRows' = tmpRows
    /\ "hookEps" \in changed \/ hookEps' = hookEps

\* The hook returns: nil (also through e.Next()) or an error.
HookReturn(r, v) ==
    /\ hookRet' = [hookRet EXCEPT ![r] = v]
    /\ treq' = [treq EXCEPT ![r].pc = "done"]

\* The API creates the tmp_endpoint and its after-create hook starts: the
\* body cannot be read, or it is hashed.
TmpCreate(r) ==
    /\ treq[r].pc = "new"
    /\ \A k \in Requests : k < r => treq[k].pc # "new"
    /\ tmpRows' = tmpRows \cup {r}
    /\ \/ HookReturn(r, "err")
       \/ \E h \in SubmittedHashes :
             /\ treq' = [treq EXCEPT ![r] = [pc |-> "find", hash |-> h]]
             /\ hookRet' = hookRet
    /\ TmpFrame({"tmpRows"})

\* FindFirstRecordByFilter("endpoints", "hash = {:hash}"), when hash # "".
HashExists(rows, h) == h # "" /\ \E i \in DOMAIN rows : rows[i] = h

\* The hook's lookup: on an existing endpoint it returns nil.
TmpFind(r) ==
    /\ treq[r].pc = "find"
    /\ IF HashExists(hookEps, treq[r].hash)
       THEN HookReturn(r, "nil")
       ELSE /\ treq' = [treq EXCEPT ![r].pc = "save"]
            /\ hookRet' = hookRet
    /\ TmpFrame({})

\* The hook saves the endpoint: an error returns it, else the row is in.
TmpSave(r) ==
    /\ treq[r].pc = "save"
    /\ \/ /\ HookReturn(r, "err")
          /\ hookEps' = hookEps
       \/ /\ hookEps' = Append(hookEps, treq[r].hash)
          /\ treq' = [treq EXCEPT ![r].pc = "delete"]
          /\ hookRet' = hookRet
    /\ TmpFrame({"hookEps"})

\* app.Delete(e.Record), its error not looked at; return e.Next().
TmpDelete(r) ==
    /\ treq[r].pc = "delete"
    /\ \/ tmpRows' = tmpRows \ {r}
       \/ tmpRows' = tmpRows
    /\ HookReturn(r, "nil")
    /\ TmpFrame({"tmpRows"})

TmpNext ==
    \/ \E r \in Requests : TmpCreate(r)
    \/ \E r \in Requests : TmpFind(r)
    \/ \E r \in Requests : TmpSave(r)
    \/ \E r \in Requests : TmpDelete(r)

TmpSpec == Init /\ [][TmpNext]_vars

\* ------------------------------------- the js_files after-update hook
HookFrame == UNCHANGED besidesHook

\* The goroutine's innermost hook call moves to position p, or returns.
HookGoto(t, p) == hstack' = [hstack EXCEPT ![t] = <<p>> \o Tail(@)]
HookReturns(t) == hstack' = [hstack EXCEPT ![t] = Tail(@)]

\* app.Save(e.Record) inside the hook: the after-update hook is called again,
\* and the caller goes on at position p when that call returns.
SaveInHook(t, p) == hstack' = [hstack EXCEPT ![t] = <<"enter", p>> \o Tail(@)]

At(t, p) == hstack[t] # <<>> /\ Head(hstack[t]) = p

\* A job of the stage waits for its worker: prettify and sourcemap were
\* queued by the after-create hook, analysis and dechunker by this hook.
Queued(t) ==
    IF t \in {"prettify", "sourcemap"} THEN hruns[t] = 0 ELSE hruns[t] < hjobs[t]

\* A worker ends its job: it sets its status on the record and saves it,
\* which calls the hook in the worker's goroutine.
WorkerSave(t) ==
    /\ hstack[t] = <<>>
    /\ Queued(t)
    /\ \E st \in {"processed", "failed"} :
          jsObj' = [jsObj EXCEPT ![StatusField(t)] = st]
    /\ hruns' = [hruns EXCEPT ![t] = @ + 1]
    /\ hstack' = [hstack EXCEPT ![t] = <<"enter">>]
    /\ UNCHANGED hjobs
    /\ HookFrame

\* if prettify_status == "processed"
HookEnter(t) ==
    /\ At(t, "enter")
    /\ IF jsObj.prettify_status = "processed"
       THEN HookGoto(t, "analysis")
       ELSE HookReturns(t)
    /\ UNCHANGED <<jsObj, hjobs, hruns>>
    /\ HookFrame

\* if analysis_status == "pending"
HookCheckAnalysis(t) ==
    /\ At(t, "analysis")
    /\ IF jsObj.analysis_status = "pending"
       THEN HookGoto(t, "setAnalysis")
       ELSE HookGoto(t, "dechunker")
    /\ UNCHANGED <<jsObj, hjobs, hruns>>
    /\ HookFrame

\* Set("analysis_status", "processing"); app.Save(e.Record)
HookSetAnalysis(t) ==
    /\ At(t, "setAnalysis")
    /\ jsObj' = [jsObj EXCEPT !.analysis_status = "processing"]
    /\ SaveInHook(t, "addAnalysis")
    /\ UNCHANGED <<hjobs, hruns>>
    /\ HookFrame

\* analysis.AddAnalysisJob(app, e.Record)
HookAddAnalysis(t) ==
    /\ At(t, "addAnalysis")
    /\ hjobs' = [hjobs EXCEPT !.analysis = @ + 1]
    /\ HookGoto(t, "dechunker")
    /\ UNCHANGED <<jsObj, hruns>>
    /\ HookFrame

\* if dechunker_status == "pending"
HookCheckDechunker(t) ==
    /\ At(t, "dechunker")
    /\ IF jsObj.dechunker_status = "pending"
       THEN HookGoto(t, "setDechunker")
       ELSE HookReturns(t)
    /\ UNCHANGED <<jsObj, hjobs, hruns>>
    /\ HookFrame

\* Set("dechunker_status", "processing"); app.Save(e.Record)
HookSetDechunker(t) ==
    /\ At(t, "setDechunker")
    /\ jsObj' = [jsObj EXCEPT !.dechunker_status = "processing"]
    /\ SaveInHook(t, "addDechunker")
    /\ UNCHANGED <<hjobs, hruns>>
    /\ HookFrame

\* dechunker.AddDechunkerJob(app, e.Record); return e.Next()
HookAddDechunker(t) ==
    /\ At(t, "addDechunker")
    /\ hjobs' = [hjobs EXCEPT !.dechunker = @ + 1]
    /\ HookReturns(t)
    /\ UNCHANGED <<jsObj, hruns>>
    /\ HookFrame

HookNext ==
    \/ \E t \in HookStages : WorkerSave(t)
    \/ \E t \in HookStages : HookEnter(t)
    \/ \E t \in HookStages : HookCheckAnalysis(t)
    \/ \E t \in HookStages : HookSetAnalysis(t)
    \/ \E t \in HookStages : HookAddAnalysis(t)
    \/ \E t \in HookStages : HookCheckDechunker(t)
    \/ \E t \in HookStages : HookSetDechunker(t)
    \/ \E t \in HookStages : HookAddDechunker(t)

HookSpec == Init /\ [][HookNext]_vars

\* ------------------------------------------------- the analysis findings
ClampLineNone(l) == l

\* convertToFindings: line := raw; if line <= 0 { line = 1 }
ClampLine(l) == IF l <= 0 THEN 1 ELSE l

\* convertToFindings, for the elements of one array; of names the element.
RECURSIVE ConvertArray(_, _, _)
ConvertArray(k, elems, i) ==
    IF i > Len(elems) THEN <<>>
    ELSE <<[category |-> Categories[k],
            line |-> ClampLine(elems[i].line),
            column |-> elems[i].column,
            original_line |-> elems[i].line,
            of |-> <<k, i>>]>> \o ConvertArray(k, elems, i + 1)

\* convertToFindings: the five arrays one after the other.
RECURSIVE ConvertToFindings(_, _)
ConvertToFindings(result, k) ==
    IF k > Len(Categories) THEN <<>>
    ELSE ConvertArray(k, result[k], 1) \o ConvertToFindings(result, k + 1)

\* The findings collection's required number fields: zero is blank.
ValidFinding(f) == f.line # 0 /\ f.column # 0

\* AnalyzeFile: the analyzer runs, its output is parsed and converted.
AnalyzeFile ==
    /\ anPc = "idle"
    /\ \E r \in AnalyzerResults :
          /\ anResult' = r
          /\ anFound' = ConvertToFindings(r, 1)
    /\ anPc' = "save"
    /\ UNCHANGED findingRows
    /\ UNCHANGED besidesAn

\* saveFindings: one turn of the loop; a Save that fails is logged and the
\* loop goes on.
SaveFinding ==
    /\ anPc = "save"
    /\ anFound # <<>>
    /\ anFound' = Tail(anFound)
    /\ \/ findingRows' = findingRows
       \/ /\ ValidFinding(Head(anFound))
          /\ findingRows' = Append(findingRows, Head(anFound))
    /\ UNCHANGED <<anResult, anPc>>
    /\ UNCHANGED besidesAn

\* processJob: analysis_status = processed.
FindingsSaved ==
    /\ anPc = "save"
    /\ anFound = <<>>
    /\ anPc' = "done"
    /\ UNCHANGED <<anResult, anFound, findingRows>>
    /\ UNCHANGED besidesAn

AnNext ==
    \/ AnalyzeFile
    \/ SaveFinding
    \/ FindingsSaved

AnSpec == Init /\ [][AnNext]_vars

\* ------------------------------------- a js_file's stages after a restart
\* The process boots with a js_file the last run left right after its
\* after-create hook.
ValBoot ==
    /\ vNext = 0
    /\ vRow' \in LeftFiles
    /\ vNext' = 1
    /\ UNCHANGED <<vCopy, vHelper>>
    /\ UNCHANGED besidesVal

\* recoverPendingJobs: one sweep; the row it finds is loaded and queued.
ValSweep ==
    /\ vNext \in DOMAIN SweepOrder
    /\ LET s == SweepOrder[vNext]
       IN  vCopy' = IF vRow[StatusField(s)] \in RecoveryFilter
                    THEN [vCopy EXCEPT ![s] = vRow]
                    ELSE vCopy
    /\ vNext' = vNext + 1
    /\ UNCHANGED <<vRow, vHelper>>
    /\ UNCHANGED besidesVal

\* The recovered prettify job has no file path: failed.  A sourcemap,
\* analysis or dechunker job on a record without hash or url: failed, before
\* anything else; else its helper runs and ends either way.  The Save
\* writes every field of the job's record.  (prettify_status is processed in
\* no record here, so the after-update hook queues nothing.)
ValRun(s) ==
    /\ vCopy[s] # NoCopy
    /\ \E ok \in BOOLEAN :
          LET valid == s # "prettify" /\ vCopy[s].hash # ""
              st == IF valid /\ ok THEN "processed" ELSE "failed"
          IN  /\ vRow' = [vCopy[s] EXCEPT ![StatusField(s)] = st]
              /\ vHelper' = IF valid THEN vHelper \cup {s} ELSE vHelper
    /\ vCopy' = [vCopy EXCEPT ![s] = NoCopy]
    /\ UNCHANGED vNext
    /\ UNCHANGED besidesVal

ValNext ==
    \/ ValBoot
    \/ ValSweep
    \/ \E s \in HookStages : ValRun(s)

ValSpec == Init /\ [][ValNext]_vars

\* --------------------------------------- a js_file's jobs and their saves
\* The js_files after-update hook on record o, run by one goroutine: the
\* record it leaves and the jobs it queues.
AfterUpdateJs(o) ==
    IF o.prettify_status # "processed" THEN [obj |-> o, jobs |-> {}]
    ELSE LET a == o.analysis_status = "pending"
             d == o.dechunker_status = "pending"
             o1 == IF a THEN [o EXCEPT !.analysis_status = "processing"] ELSE o
             o2 == IF d THEN [o1 EXCEPT !.dechunker_status = "processing"] ELSE o1
         IN  [obj |-> o2,
              jobs |-> (IF a THEN {"analysis"} ELSE {}) \cup
                       (IF d THEN {"dechunker"} ELSE {})]

\* A worker ends its job: it sets its status on the record and saves it.
\* The save writes every field and then runs the after-update hook; when it
\* fails it is logged, nothing is written and no hook runs.
FinalSave(s) ==
    /\ s \in fsJobs
    /\ \E st \in {"processed", "failed"}, ok \in BOOLEAN :
          LET o == [fsObj EXCEPT ![StatusField(s)] = st]
              h == AfterUpdateJs(o)
          IN  IF ok
              THEN /\ fsObj' = h.obj
                   /\ fsRow' = h.obj
                   /\ fsJobs' = (fsJobs \ {s}) \cup h.jobs
                   /\ fsFailed' = fsFailed
              ELSE /\ fsObj' = o
                   /\ fsRow' = fsRow
                   /\ fsJobs' = fsJobs \ {s}
                   /\ fsFailed' = fsFailed \cup {s}
    /\ UNCHANGED besidesFs

FsNext == \E s \in HookStages : FinalSave(s)

FsSpec == Init /\ [][FsNext]_vars

\* ----------------------------------------------------- the sourcemap job
IsValidSourceMapContentAny(c) == TRUE

\* JSON with a version of at least 1 and a sources array.
IsValidSourceMapContent(c) == c \in {"empty", "map"}

\* The bytes a download gives, "nil" standing for its error.
FetchSourceMapContent(c) ==
    IF c = "nil" \/ ~IsValidSourceMapContent(c) THEN "nil" ELSE c

\* A data URI is decoded and not validated; a URL is fetched.
GetSourceMapContent(in) ==
    IF in.comment = "data" THEN in.at ELSE FetchSourceMapContent(in.at)

\* Parsing and writing the sources to the temporary directory: an error
\* for bytes that are not JSON and for a map without sources or contents.
ExtractSourcesToTempDir(c) ==
    IF c \in {"noversion", "map"}
    THEN [err |-> FALSE, files |-> {"src.js"}]
    ELSE [err |-> TRUE, files |-> {}]

ProcessSourceMap(in) ==
    LET first == IF in.comment = "none" THEN "nil" ELSE GetSourceMapContent(in)
        content == IF first = "nil" THEN FetchSourceMapContent(in.fallback)
                   ELSE first
    IN  IF content = "nil" THEN NoSourceMap
        ELSE ExtractSourcesToTempDir(content)

SmFrame(changed) ==
    /\ UNCHANGED besidesSm
    /\ "smIn" \in changed \/ smIn' = smIn
    /\ "smRes" \in changed \/ smRes' = smRes
    /\ "smObj" \in changed \/ (smObj' = smObj /\ smRow' = smRow)
    /\ "smWritten" \in changed \/ smWritten' = smWritten

\* Set the status on the record and save it; a failed save writes nothing.
SmSave(st) ==
    /\ smObj' = st
    /\ \E ok \in BOOLEAN : smRow' = IF ok THEN st ELSE smRow

\* The job reads the body of the js_file from disk.
SmRead ==
    /\ smPc = "idle"
    /\ \E in \in SourcemapInputs :
          /\ smIn' = in
          /\ IF in.readable
             THEN /\ smPc' = "map"
                  /\ SmFrame({"smIn"})
             ELSE /\ SmSave("failed")
                  /\ smPc' = "done"
                  /\ SmFrame({"smIn", "smObj"})

SmProcess ==
    /\ smPc = "map"
    /\ smRes' = ProcessSourceMap(smIn)
    /\ IF smRes'.err
       THEN /\ SmSave("processed")
            /\ smPc' = "done"
            /\ SmFrame({"smRes", "smObj"})
       ELSE /\ smPc' = "files"
            /\ SmFrame({"smRes"})

\* saveSourceFile for each source file, an error skipping the file; then
\* the final status.
SmSaveFiles ==
    /\ smPc = "files"
    /\ \E w \in SUBSET smRes.files : smWritten' = w
    /\ SmSave("processed")
    /\ smPc' = "done"
    /\ SmFrame({"smObj", "smWritten"})

SmNext == SmRead \/ SmProcess \/ SmSaveFiles

SmSpec == Init /\ [][SmNext]_vars

\* ------------------------------------------ the source files of a sourcemap
\* os.TempDir()/sourcemaps/<sha256 of the URL>
TempDir == <<"tmp", "sourcemaps", "H">>

\* config.GetFilesPath()/<domain>/<js hash>/original
OriginalDir == <<"files", "domain", "h1", "original">>

IsPrefix(d, f) == Len(d) <= Len(f) /\ SubSeq(f, 1, Len(d)) = d

\* strings.TrimLeft(path, "./"): the leading dots and slashes go.
RECURSIVE TrimLeftDotSlash(_)
TrimLeftDotSlash(path) ==
    IF path # <<>> /\ Head(path) \in {"", ".", ".."}
    THEN TrimLeftDotSlash(Tail(path))
    ELSE path

\* filepath.Clean of the relative path made of done followed by rest.
RECURSIVE CleanOnto(_, _)
CleanOnto(done, rest) ==
    IF rest = <<>> THEN done
    ELSE LET seg == Head(rest)
         IN  IF seg \in {"", "."} THEN CleanOnto(done, Tail(rest))
             ELSE IF seg = ".." /\ done # <<>> /\ done[Len(done)] # ".."
                  THEN CleanOnto(SubSeq(done, 1, Len(done) - 1), Tail(rest))
                  ELSE CleanOnto(Append(done, seg), Tail(rest))

\* filepath.Clean: the empty result is written ".".
FilepathClean(path) ==
    LET c == CleanOnto(<<>>, path) IN IF c = <<>> THEN <<".">> ELSE c

SanitizeSourcePath(sourcePath) == FilepathClean(TrimLeftDotSlash(sourcePath))

\* filepath.Join(dir, rel) for an absolute dir: ".." stops at the root.
RECURSIVE FilepathJoin(_, _)
FilepathJoin(dir, rel) ==
    IF rel = <<>> THEN dir
    ELSE LET seg == Head(rel)
         IN  IF seg \in {"", "."} THEN FilepathJoin(dir, Tail(rel))
             ELSE IF seg = ".."
                  THEN FilepathJoin(IF dir = <<>> THEN dir
                                    ELSE SubSeq(dir, 1, Len(dir) - 1), Tail(rel))
                  ELSE FilepathJoin(Append(dir, seg), Tail(rel))

\* Dots are squeezed and trimmed from the ends of a component.
CleanPathComponent(component) ==
    IF component \in {".", ".."} THEN "" ELSE component

\* One leading "../" is cut, then the components that clean to nothing or
\* to dots are dropped.
CleanSourcePath(path) ==
    LET cut == IF Len(path) > 1 /\ Head(path) = ".." THEN Tail(path) ELSE path
        kept == SelectSeq(cut, LAMBDA seg :
                              CleanPathComponent(seg) \notin {"", ".", ".."})
    IN  IF kept = <<>> THEN <<"unknown.js">> ELSE kept

\* A filename without extension gets ".js".
WithExt(name) == IF name = "a" THEN "a.js" ELSE name

\* The directories that are there: the temporary directory and the ones
\* above it.
IsDir(f) == IsPrefix(f, TempDir)

PathFrame == UNCHANGED besidesPath

\* extractSourcesToTempDir on one source: the path is sanitized and the
\* content written below the temporary directory; a path that is a
\* directory makes the write, and so the extraction, fail.
ExtractSource ==
    /\ pPc = "idle"
    /\ \E sp \in SourcePaths :
          LET cleanPath == SanitizeSourcePath(sp)
              fullPath == FilepathJoin(TempDir, cleanPath)
          IN  /\ pSource' = sp
              /\ pClean' = cleanPath
              /\ IF IsDir(fullPath)
                 THEN pWritten' = pWritten /\ pPc' = "done"
                 ELSE pWritten' = pWritten \cup {fullPath} /\ pPc' = "save"
    /\ PathFrame

\* saveSourceFile: the path is cleaned again and the file written under
\* original/, or the write fails.
SaveSourceFile ==
    /\ pPc = "save"
    /\ LET cleanedPath == CleanSourcePath(pClean)
           dir == OriginalDir \o SubSeq(cleanedPath, 1, Len(cleanedPath) - 1)
           fullPath == Append(dir, WithExt(cleanedPath[Len(cleanedPath)]))
       IN  \E ok \in BOOLEAN :
              pWritten' = IF ok THEN pWritten \cup {fullPath} ELSE pWritten
    /\ pPc' = "done"
    /\ UNCHANGED <<pSource, pClean>>
    /\ PathFrame

PathNext == ExtractSource \/ SaveSourceFile

PathSpec == Init /\ [][PathNext]_vars

\* ------------------------------------------------ the HTML structural hash
RemoveNothing(doc) == doc

\* doc.Find("script, style, meta").Remove()
RemoveDynamic(doc) ==
    SelectSeq(doc, LAMBDA el : el.tag \notin {"script", "style", "meta"})

\* Every attribute but href and src is cleared.
KeepEssential(el) == [tag |-> el.tag, href |-> el.href, text |-> el.text]

\* The dynamic patterns (UUIDs, ISO dates, nonces) are cut from the text.
NormalizeText(text) == IF text = "nonce-a1" THEN "" ELSE text

\* s.Text() of the html element: the texts of the elements in document
\* order, put together.
RECURSIVE TextOf(_)
TextOf(doc) ==
    IF doc = <<>> THEN <<>>
    ELSE LET t == NormalizeText(Head(doc).text)
         IN  (IF t = "" THEN <<>> ELSE <<t>>) \o TextOf(Tail(doc))

\* The normalized page, standing for its SHA-256 digest. The first element
\* the text pass meets is html: its children are replaced by one text node
\* holding the page's text, and that is what doc.Html() renders.
GenerateHTMLHash(doc) ==
    LET kept == RemoveDynamic(doc)
        bare == [i \in 1..Len(kept) |-> KeepEssential(kept[i])]
    IN  <<"<html>">> \o TextOf(bare) \o <<"</html>">>

\* The page with its script elements put in another order.
Reordered(doc) ==
    {[i \in 1..Len(doc) |-> doc[pi[i]]] :
        pi \in {q \in Permutations(1..Len(doc)) :
                   \A i \in 1..Len(doc) :
                       doc[i].tag # "script" => q[i] = i}}

\* The page with the class attribute of its elements changed, added or
\* removed.
Restyled(doc) ==
    {[i \in 1..Len(doc) |-> [doc[i] EXCEPT !.class = cl[i]]] :
        cl \in [1..Len(doc) -> {"", "c"}]}

HashFrame == UNCHANGED besidesHash

HashPage ==
    /\ hPc = "idle"
    /\ \E doc \in Pages : hDoc' = doc /\ hHash' = GenerateHTMLHash(doc)
    /\ hPc' = "hashed"
    /\ UNCHANGED <<hOther, hOtherHash>>
    /\ HashFrame

HashSecond(as, doc) ==
    /\ hPc = "hashed"
    /\ hOther' = doc
    /\ hOtherHash' = GenerateHTMLHash(doc)
    /\ hPc' = as
    /\ UNCHANGED <<hDoc, hHash>>
    /\ HashFrame

HashAgain == HashSecond("again", hDoc)

HashReordered == \E doc \in Reordered(hDoc) : HashSecond("reordered", doc)

HashRestyled == \E doc \in Restyled(hDoc) : HashSecond("restyled", doc)

HasherNext == HashPage \/ HashAgain \/ HashReordered \/ HashRestyled

HashSpec == Init /\ [][HasherNext]_vars

\* -------------------------------------- an endpoint's HTML prettify jobs
\* The status processJob sets for a prettifier outcome.
PrettifyStatus(o) == IF o = "ok" THEN "processed" ELSE "failed"

\* The endpoints after-update hook: for the desktop and for the mobile file
\* it sets prettify_status to processing, saves and queues a job with the
\* record.
EndpointUpdatedHook ==
    /\ \A x \in Executions : pfRow[x] = "pending"
    /\ \E o \in [HtmlJobs -> {"ok", "error"}] : pfOutcome' = o
    /\ pfObj' = [x \in Executions |-> "processing"]
    /\ pfRow' = [x \in Executions |-> "processing"]
    /\ pfLeft' = [x \in Executions |-> HtmlJobs]
    /\ UNCHANGED pfSaving
    /\ UNCHANGED besidesPf

\* A prettify worker runs the prettifier for job j in execution x and sets
\* the status on the record the two jobs share.
HtmlPrettifyRun(x, j) ==
    /\ j \in pfLeft[x]
    /\ pfObj' = [pfObj EXCEPT ![x] = PrettifyStatus(pfOutcome[j])]
    /\ pfLeft' = [pfLeft EXCEPT ![x] = pfLeft[x] \ {j}]
    /\ pfSaving' = [pfSaving EXCEPT ![x] = pfSaving[x] \cup {j}]
    /\ UNCHANGED <<pfOutcome, pfRow>>
    /\ UNCHANGED besidesPf

\* The worker saves the record.
HtmlPrettifySave(x, j) ==
    /\ j \in pfSaving[x]
    /\ pfRow' = [pfRow EXCEPT ![x] = pfObj[x]]
    /\ pfSaving' = [pfSaving EXCEPT ![x] = pfSaving[x] \ {j}]
    /\ UNCHANGED <<pfOutcome, pfObj, pfLeft>>
    /\ UNCHANGED besidesPf

PfNext ==
    \/ EndpointUpdatedHook
    \/ \E x \in Executions, j \in HtmlJobs : HtmlPrettifyRun(x, j)
    \/ \E x \in Executions, j \in HtmlJobs : HtmlPrettifySave(x, j)

PfSpec == Init /\ [][PfNext]_vars

\* --------------------------------- batch submissions to the extraction pool
BatchFrame(t, changed) ==
    /\ UNCHANGED besidesBatch
    /\ UNCHANGED bBatch
    /\ "bQueue" \in changed \/ (bQueue' = bQueue /\ bAccepted' = bAccepted)
    /\ "bIdx" \in changed \/ bIdx' = bIdx
    /\ "bErr" \in changed \/ bErr' = bErr
    /\ "bRet" \in changed \/ bRet' = bRet

\* cap(jobQueue) - len(jobQueue)
GetAvailableSpace == BatchQueueSize - Len(bQueue)

\* The loop goes on after a failed send: break leaves the select only.
LoopEndsOnError == FALSE

\* A goroutine is given a batch and calls SubmitJobs or AddExtractionJobs.
BatchCall(t) ==
    /\ bPc[t] = "idle"
    /\ bRet[t] = "none"
    /\ \E b \in BatchesOf(t) : bBatch' = [bBatch EXCEPT ![t] = b]
    /\ bPc' = [bPc EXCEPT ![t] = "check"]
    /\ UNCHANGED <<bQueue, bIdx, bErr, bRet, bAccepted>>
    /\ UNCHANGED besidesBatch

\* The check of the available space.
BatchCheck(t) ==
    /\ bPc[t] = "check"
    /\ IF Len(bBatch[t]) > GetAvailableSpace
       THEN /\ bRet' = [bRet EXCEPT ![t] = "not enough space"]
            /\ bPc' = [bPc EXCEPT ![t] = "idle"]
            /\ BatchFrame(t, {"bRet"})
       ELSE /\ bIdx' = [bIdx EXCEPT ![t] = 1]
            /\ bPc' = [bPc EXCEPT ![t] = "loop"]
            /\ BatchFrame(t, {"bIdx"})

\* One turn of the loop: the select sends the job or takes its default.
BatchSend(t) ==
    /\ bPc[t] = "loop"
    /\ bIdx[t] <= Len(bBatch[t])
    /\ IF Len(bQueue) < BatchQueueSize
       THEN /\ bQueue' = Append(bQueue, bBatch[t][bIdx[t]])
            /\ bAccepted' = Append(bAccepted, bBatch[t][bIdx[t]])
            /\ bIdx' = [bIdx EXCEPT ![t] = bIdx[t] + 1]
            /\ BatchFrame(t, {"bQueue", "bIdx"})
       ELSE /\ bErr' = [bErr EXCEPT ![t] = TRUE]
            /\ bIdx' = [bIdx EXCEPT ![t] =
                           IF LoopEndsOnError THEN Len(bBatch[t]) + 1
                           ELSE bIdx[t] + 1]
            /\ BatchFrame(t, {"bErr", "bIdx"})
    /\ UNCHANGED bPc

\* After the loop: the error, if one was met.
BatchReturn(t) ==
    /\ bPc[t] = "loop"
    /\ bIdx[t] > Len(bBatch[t])
    /\ bRet' = [bRet EXCEPT ![t] = IF bErr[t] THEN "queue became full" ELSE "nil"]
    /\ bPc' = [bPc EXCEPT ![t] = "idle"]
    /\ BatchFrame(t, {"bRet"})

\* A worker takes the oldest job from the channel.
BatchReceive ==
    /\ bQueue # <<>>
    /\ bQueue' = Tail(bQueue)
    /\ UNCHANGED <<bBatch, bPc, bIdx, bErr, bRet, bAccepted>>
    /\ UNCHANGED besidesBatch

BatchNext ==
    \/ \E t \in Submitters : BatchCall(t)
    \/ \E t \in Submitters : BatchCheck(t)
    \/ \E t \in Submitters : BatchSend(t)
    \/ \E t \in Submitters : BatchReturn(t)
    \/ BatchReceive

BatchSpec == Init /\ [][BatchNext]_vars

\* ------------------------------------------------------------ properties
Range(q) == {q[i] : i \in DOMAIN q}

\* Every submission of the last step, by a hook or by the recovery.
Submissions == hookLog \cup Range(recLog)

\* Nothing is queued, running or about to run, and the recovery has returned.
Quiescent ==
    /\ phase = "serving"
    /\ rec = 8
    /\ queue = NoQueue
    /\ active = {}
    /\ hooks = {}

StatusesOf(ids) ==
    {<<id, f>> \in ids \X {"extraction_status", "prettify_status", "sourcemap_status",
                            "analysis_status", "dechunker_status"} : f \in StatusFields(id)}

AllStatuses == StatusesOf(DOMAIN store)

\* C1: an Analysis or Dechunker job is placed on its queue only when the
\* js_file's persisted prettify_status is processed, whoever submits it.
C1_PrettifiedBeforeAnalysis ==
    \A ev \in Submissions :
        (ev.ok /\ ev.stage \in {"analysis", "dechunker"}) => ev.pst = "processed"

\* C2: after a crash anywhere and a restart that runs to the end, every status
\* field of every endpoint and js_file the crash left is processed or failed.
C2_AllStagesFinish ==
    (Quiescent /\ boots >= 1) =>
        \A x \in StatusesOf(booted) : store[x[1]][x[2]] \in Terminal

\* C3: a persisted status only moves forward along pending -> processing ->
\* {processed, failed}, and a processed or failed one never changes again.
Rank(v) ==
    CASE v = "" -> 0
      [] v = "pending" -> 1
      [] v = "processing" -> 2
      [] v \in Terminal -> 3

C3_StatusMonotone ==
    [][\A x \in AllStatuses :
          \/ store'[x[1]][x[2]] = store[x[1]][x[2]]
          \/ /\ store[x[1]][x[2]] \notin Terminal
             /\ Rank(store[x[1]][x[2]]) < Rank(store'[x[1]][x[2]])]_vars

\* C4: whenever a job is placed on a stage's queue, by a hook or by the
\* recovery, the record's persisted status for that stage is processing.
C4_ProcessingBeforeQueued ==
    \A ev \in Submissions : ev.ok => ev.st = "processing"

\* C5: the recovery submits a record to a stage only if its status for that
\* stage is pending or processing; a failed or processed one is never re-sent.
C5_OnlyUnfinishedResubmitted ==
    \A i \in DOMAIN recLog : recLog[i].st \in {"pending", "processing"}

\* A later boot's recovery has submitted something and has passed over a stage
\* a record had failed in.
C5_Witness ==
    /\ boots >= 1
    /\ rec = 7
    /\ recLog # <<>>
    /\ \E id \in DOMAIN store :
          /\ store[id].prettify_status = "failed"
          /\ \A i \in DOMAIN recLog :
                ~(recLog[i].rec = id /\ recLog[i].stage = "prettify")

\* C6: a Prettify job the recovery submitted ends with prettify_status =
\* processed whenever the prettifier succeeds on the record's file.
C6_RecoveredPrettifySucceeds ==
    (lastRun.stage = "prettify" /\ lastRun.origin \in {2, 3} /\ lastRun.ok) =>
        store[lastRun.rec].prettify_status = "processed"

\* C7: a recovery run leaves every record it sweeps at processing, and it
\* submits a record to a stage at most once.
C7_SweepFlipsToProcessing ==
    [][/\ \A i \in (Len(recLog) + 1)..Len(recLog') :
             store'[recLog'[i].rec][StatusField(recLog'[i].stage)] = "processing"
       /\ \A i, j \in DOMAIN recLog' :
             (recLog'[i].rec = recLog'[j].rec /\ recLog'[i].stage = recLog'[j].stage)
                 => i = j]_vars

\* C8: after a clean shutdown and a cold boot, once everything the recovery
\* started has run, no record of that boot has a status in {pending, processing}.
C8_PendingSetEmpties ==
    (Quiescent /\ boots >= 1 /\ cleanStop) =>
        \A x \in StatusesOf(booted) : store[x[1]][x[2]] \notin Unfinished

\* C9: for the one js_file that restarts with analysis_status processing and
\* its other statuses processed, the recovery makes exactly one submission,
\* to Analysis, and no hook submits the file to any stage.
C9_OnlyAnalysisResubmitted ==
    Cardinality(s6) = 1 =>
        /\ \A i \in DOMAIN recLog : recLog[i].rec \in s6 => recLog[i].stage = "analysis"
        /\ Cardinality({i \in DOMAIN recLog : recLog[i].rec \in s6}) <= 1
        /\ rec = 7 => \E i \in DOMAIN recLog : recLog[i].rec \in s6 /\ recLog[i].ok
        /\ \A ev \in hookLog : ev.rec \notin s6

\* The sweeps are over and the analysis of the file has run again.
C9_Witness ==
    /\ Cardinality(s6) = 1
    /\ rec = 7
    /\ \E i \in DOMAIN recLog : recLog[i].rec \in s6
    /\ \A f \in s6 : store[f].analysis_status = "processed"
    /\ queue["analysis"] = <<>>

\* The sweep a submission of the recovery belongs to.
SweepOf(ev) ==
    CASE ev.stage = "extraction" -> 1
      [] ev.stage = "prettify" -> IF ev.rec[1] = "endpoints" THEN 2 ELSE 3
      [] ev.stage = "sourcemap" -> 4
      [] ev.stage = "analysis" -> 5
      [] ev.stage = "dechunker" -> 6

\* C10: the recovery runs only once all five pools are running; it submits
\* endpoint extraction, endpoint prettify, js_file prettify, sourcemap,
\* analysis, dechunker in that order, oldest record first within a sweep.
C10_RecoveryOrder ==
    /\ rec > 0 => \A p \in Pools : running[p]
    /\ \A i, j \in DOMAIN recLog :
          i < j => \/ SweepOf(recLog[i]) < SweepOf(recLog[j])
                   \/ /\ SweepOf(recLog[i]) = SweepOf(recLog[j])
                      /\ recLog[i].at <= recLog[j].at

\* A recovery that swept two records of one collection, and two stages.
C10_Witness ==
    /\ rec = 7
    /\ \E i, j \in DOMAIN recLog :
          /\ i < j
          /\ recLog[i].stage = recLog[j].stage
          /\ recLog[i].at < recLog[j].at
    /\ \E i, j \in DOMAIN recLog : recLog[i].stage # recLog[j].stage

\* ------------------------------------------------ properties of one pool
\* A thread inside a submission: at IsRunning's or SubmitJob's RLock, or at
\* the select of a direct Add*Job.
Submitting(t) == pc[t] \in {"isrunning", "rlock", "add"}

\* C11: a call to submit completes without waiting on any other thread: it
\* never waits for queue space, for a worker, or for a concurrent Stop that
\* is waiting for the workers.  A thread inside a submission can always take
\* its next step.
C11_SubmitNeverWaits ==
    \A t \in Threads :
        (Submitting(t) /\ ~crashed) =>
            \/ ENABLED IsRunning(t)
            \/ ENABLED SubmitJob(t)
            \/ ENABLED AddJobDirect(t)

\* A step in which a send on the closed channel panics.
SendOnClosed == ~crashed /\ crashed' /\ panicked' = panicked

\* C12: once Stop has been called (the channel is closed), a submission
\* returns not-running or shutting-down, adds no job and never sends on the
\* closed channel, through Add*Job as through SubmitJob.
C12_NoSubmitAfterStop ==
    [][closed =>
          /\ ~SendOnClosed
          /\ \A t \in Threads :
                (Submitting(t) /\ ret'[t] # ret[t]) =>
                    /\ ret'[t].err \in {"not running", "shutting down"}
                    /\ jobQueue' = jobQueue]_vars

\* The pool is running with its queue at capacity.
AtCapacity == isRunning /\ ~closed /\ Len(jobQueue) = PoolQueueSize

\* C13: on a running pool whose queue is at capacity, submit returns the
\* queue-full error, which is neither the not-running nor the shutting-down
\* error, and leaves the queue and the record's status as they were.
C13_QueueFullFrame ==
    [][\A t \in Threads :
          (AtCapacity /\ Submitting(t) /\ pc'[t] # pc[t]) =>
              /\ jobQueue' = jobQueue
              /\ jobStatus' = jobStatus
              /\ ~crashed'
              /\ pc[t] # "isrunning" =>
                    /\ ret'[t] = Ret("submit", "queue is full")
                    /\ ret'[t].err \notin {"not running", "shutting down", "nil"}]_vars

\* A third submission was refused on a full queue.
C13_Witness ==
    /\ AtCapacity
    /\ \E t \in Threads : ret[t] = Ret("submit", "queue is full")

C15_StopReturns ==
    \A t \in PCallers :
        pc[t] = "wait" =>
            /\ \A w \in PWorkers : pc[w] \notin {"isrunning", "rlock"}
            /\ workerWg = 0 => \A w \in PWorkers : pc[w] = "exit"

\* C16: Stop is idempotent: on a pool that is stopped or was never started,
\* and from two threads at once, it returns nil, the channel is closed at
\* most once, and a Stop that finds the pool not running changes nothing.
C16_StopIdempotent ==
    [][/\ closes' <= 1
       /\ \A t \in PCallers :
             /\ (pc[t] \in {"stop", "wait"} /\ pc'[t] = "idle") =>
                    ret'[t] = Ret("stop", "nil")
             /\ (pc[t] = "stop" /\ pc'[t] # "stop" /\ ~isRunning) =>
                    /\ pc'[t] = "idle"
                    /\ \A w \in PWorkers : pc'[w] = pc[w]
                    /\ UNCHANGED <<isRunning, jobQueue, closed, ctxDone, mu,
                                   workerWg, closes>>]_vars

\* Both callers' last call was a Stop that returned, on a pool that had been
\* started and was closed once.
C16_Witness ==
    /\ closes = 1
    /\ ~isRunning
    /\ \A t \in PCallers : ret[t] = Ret("stop", "nil")

\* C17: Start on a running pool returns an error and starts no worker;
\* Start on a pool that is not running starts exactly PoolWorkers workers
\* and marks the pool running.
C17_StartOnce ==
    [][\A t \in PCallers :
          (pc[t] = "start" /\ pc'[t] # "start") =>
              IF isRunning
              THEN /\ ret'[t] = Ret("start", "already running")
                   /\ spawned' = spawned
                   /\ workerWg' = workerWg
                   /\ \A w \in PWorkers : pc'[w] = pc[w]
                   /\ isRunning'
              ELSE /\ ret'[t] = Ret("start", "nil")
                   /\ spawned' = spawned + PoolWorkers
                   /\ workerWg' = workerWg + PoolWorkers
                   /\ Cardinality({w \in PWorkers : pc'[w] = "select"}) = PoolWorkers
                   /\ isRunning']_vars

\* A second Start was refused, the first one's workers being the only ones.
C17_Witness ==
    /\ spawned = PoolWorkers
    /\ \E t \in PCallers : ret[t] = Ret("start", "already running")

\* ------------------------------------------------- properties: the jobs
\* C18: when the processing of a job panics, the worker marks the job's
\* record failed for the stage and goes on taking jobs, and the rest of the
\* process keeps running.
C18_PanicContained ==
    \A j \in panicked : jobStatus[j] = "failed" /\ ~crashed

\* C19: once the pool's context is cancelled, a job in flight returns early
\* from its blocking work instead of running it to completion.
C19_InFlightCancelled ==
    [][\A w \in PWorkers :
          (ctxDone /\ pc[w] = "job" /\ pc'[w] = "select") =>
              jobEnd'[cur[w]] = "cancelled"]_vars

\* C20: the jobs are dequeued in the order their submissions succeeded: the
\* jobs the workers have started are the first of the jobs the channel took.
C20_Fifo ==
    /\ Len(started) <= Len(accepted)
    /\ started = SubSeq(accepted, 1, Len(started))

\* Two jobs waited in the channel together and the older one has been taken.
C20_Witness ==
    /\ Len(accepted) >= 2
    /\ Len(started) = 1
    /\ jobQueue # <<>>
    /\ jobQueue[1] = accepted[2]

\* ---------------------------------------------- properties: the records
\* C24: in every persisted state each status field of every endpoint and of
\* every js_file holds pending, processing, processed or failed; a js_file
\* row is never persisted with an empty status.
C24_StatusDomain ==
    \A id \in DOMAIN store :
        \A f \in StatusFields(id) :
            store[id][f] \in {"pending", "processing", "processed", "failed"}

\* --------------------------------------------- the files' registry: claims
\* C21: at every moment no two js_file records have the same url, whatever
\* the interleaving of the workers that register files.
C21_UrlUnique ==
    \A i, j \in DOMAIN jsRows : i # j => jsRows[i].url # jsRows[j].url

\* C22: at every moment no two js_file records have the same content hash:
\* every writer, the extraction stage and the dechunker stage, registers no
\* file whose hash is that of an existing js_file, even under a new URL.
C22_HashUnique ==
    \A i, j \in DOMAIN jsRows : i # j => jsRows[i].hash # jsRows[j].hash

\* C23: every js_file the dechunker stage created has type chunk, has_chunks
\* false and a parent_id naming an existing js_file; and no js_file of type
\* inline or chunk is ever put on the dechunker queue, by the hooks or by
\* recovery: its dechunker_status, once one is persisted, is processed and
\* stays so, never pending or processing.
C23_ChunksSkipDechunker ==
    [][/\ \A j \in byDechunker' :
             /\ j \in DOMAIN jsRows'
             /\ jsRows'[j].type = "chunk"
             /\ ~jsRows'[j].has_chunks
             /\ jsRows'[j].parent_id \in DOMAIN jsRows' \ {j}
       /\ \A j \in DOMAIN jsRows' :
             jsRows'[j].type \in {"inline", "chunk"} =>
                /\ j \notin dqLog'
                /\ j \notin Range(dq')
                /\ dw'.rec # j
                /\ jsRows'[j].dechunker_status \in {"", "processed"}
                /\ (j \in DOMAIN jsRows /\ jsRows[j].dechunker_status = "processed")
                      => jsRows'[j].dechunker_status = "processed"]_vars

\* A restart's recovery has run over a chunk the dechunker had registered,
\* and over the file it came from.
C23_Witness ==
    /\ swept # <<>>
    /\ \E j \in byDechunker \cap swept[1] :
          /\ jsRows[j].dechunker_status = "processed"
          /\ jsRows[j].parent_id \in dqLog
          /\ jsRows[jsRows[j].parent_id].dechunker_status = "processed"

\* C26: whenever an endpoint's extraction_status is processed, its hash is
\* the structural hash of the HTML extracted for it, not empty, also when
\* saving the HTML file failed; and an HTML prettify job is queued for it
\* only after the flip to processed and only for a path built from that hash.
C26_HashBeforeProcessed ==
    \A e \in RegEndpoints :
        /\ eps[e].extraction_status = "processed" =>
              /\ eps[e].hash # ""
              /\ eps[e].hash = eps[e].html
        /\ prettifyPath[e] # "none" =>
              /\ eps[e].extraction_status = "processed"
              /\ prettifyPath[e] = eps[e].html

\* C27: when an extraction job flips extraction_status to processed, the
\* endpoint's js_files is the union of the ids of all js_files reused or
\* created for what the job captured, the desktop pass's ids included when
\* the mobile pass is enabled.
C27_JsFilesUnion ==
    [][\A e \in RegEndpoints :
          (eps[e].extraction_status # "processed" /\
           eps'[e].extraction_status = "processed")
             => eps'[e].js_files = xw[e].used]_vars

\* C28: any error of the browser extraction or of saving its results, in the
\* desktop pass or in the mobile pass, ends the extraction job with
\* extraction_status = failed; processed is written only when every enabled
\* pass extracted and saved without error.
C28_ErrorsFail ==
    [][\A e \in RegEndpoints :
          (eps[e].extraction_status # "processed" /\
           eps'[e].extraction_status = "processed")
             => ~xw[e].err]_vars

\* ------------------------------------------------------ the ingest: claims
\* C29: the tmp_endpoint after-create hook never inserts an endpoint whose
\* hash is that of an existing endpoint: after any sequence and interleaving
\* of tmp_endpoint creations no two endpoints the hook created carry the
\* same structural hash.
C29_NoDuplicateEndpoint ==
    \A i, j \in DOMAIN hookEps :
        (i # j /\ hookEps[i] # "") => hookEps[i] # hookEps[j]

\* C30: once the tmp_endpoint after-create hook has returned without error
\* the tmp_endpoint no longer exists, whether an endpoint was inserted from
\* it or it was dropped as the duplicate of an existing endpoint.
C30_TmpGone ==
    \A r \in Requests : hookRet[r] = "nil" => r \notin tmpRows

\* ------------------------------------- the js_files after-update hook: claims
\* C25: the js_file after-update hook is idempotent under re-fires: in a run
\* without restart, however often and however concurrently it fires for one
\* js_file, at most one analysis job and at most one dechunker job are
\* submitted for that js_file.
C25_HookIdempotent ==
    /\ hjobs.analysis <= 1
    /\ hjobs.dechunker <= 1

\* ----------------------------------------- the analysis findings: claims
\* C31: for every element the analyzer reports, in any of the five arrays and
\* for any integer raw line, zero and negative included, the finding stored
\* for it has line = max(raw line, 1), hence line >= 1, and
\* metadata.original_line equal to the raw line.
C31_LineClamped ==
    \A n \in DOMAIN findingRows :
        LET f == findingRows[n]
            raw == anResult[f.of[1]][f.of[2]].line
        IN  /\ f.line = (IF raw > 1 THEN raw ELSE 1)
            /\ f.line >= 1
            /\ f.original_line = raw

\* Findings of a negative and of a positive raw line are stored.
C31_Witness ==
    /\ anPc = "done"
    /\ \E n, m \in DOMAIN findingRows :
          /\ findingRows[n].original_line < 0
          /\ findingRows[m].original_line > 1

\* --------------------------- a js_file's stages after a restart: claims
\* C32: a js_file with an empty hash or an empty url that enters the
\* sourcemap, analysis or dechunker stage is marked failed for that stage,
\* the stage's helper or fetch is not invoked for it, and its other status
\* fields are left unchanged.
C32_ValidationFails ==
    [][\A s \in {"sourcemap", "analysis", "dechunker"} :
          (vCopy[s] # NoCopy /\ vCopy'[s] = NoCopy /\ vCopy[s].hash = "")
             => /\ vRow'[StatusField(s)] = "failed"
                /\ s \notin vHelper'
                /\ \A t \in HookStages \ {s} :
                      vRow'[StatusField(t)] = vRow[StatusField(t)]]_vars

\* ------------------------------- a js_file's jobs and their saves: claims
\* C33: when a worker's final save of a record's status fails, the worker
\* ends that job, the persisted status of the record stays processing, and
\* the next recovery sweep re-submits the record to that stage.
C33_FailedSaveLeftToRecovery ==
    \A s \in fsFailed :
        /\ s \notin fsJobs
        /\ fsRow[StatusField(s)] = "processing"
        /\ fsRow[StatusField(s)] \in RecoveryFilter

\* ---------------------------------------------- the sourcemap job: claims
\* The bytes that do not validate as a sourcemap.
NotSourcemaps == {"notjson", "noversion"}

\* The body has no sourceMappingURL comment and the fallback fetch fails, or
\* every fetch the job makes brings bytes that do not validate.
NoSourcemapToHave ==
    /\ smIn.readable
    /\ \/ smIn.comment = "none" /\ smIn.fallback = "nil"
       \/ /\ smIn.comment # "data"
          /\ smIn.comment = "url" => smIn.at \in NotSourcemaps
          /\ smIn.fallback \in NotSourcemaps

\* C34: a sourcemap job for a js_file whose body has no sourceMappingURL
\* comment and whose fallback fetch fails, or whose fetched bytes do not
\* validate as a sourcemap, ends with sourcemap_status processed, not failed,
\* and writes no file under original/.
C34_NoSourcemapProcessed ==
    (smPc = "done" /\ NoSourcemapToHave) =>
        /\ smObj = "processed"
        /\ smRow \in {"processed", "processing"}
        /\ smWritten = {}

C34_Witness ==
    /\ smPc = "done"
    /\ NoSourcemapToHave
    /\ smIn.fallback = "noversion"
    /\ smRow = "processed"

\* ----------------------------------- the source files of a sourcemap: claims
\* C35: for every sources path, with leading, embedded or repeated ".."
\* segments or absolute, every file the sourcemap stage writes while
\* processing a js_file lies under <domain>/<js_hash>/original/ and none is
\* written outside that directory. The files of the job's own temporary
\* directory, which the sources are extracted to first, are set aside.
C35_WrittenUnderOriginal ==
    \A f \in pWritten : IsPrefix(OriginalDir, f) \/ IsPrefix(TempDir, f)

\* ---------------------------------------- the HTML structural hash: claims
\* C36: the HTML structural hash is deterministic, hashing the same HTML
\* twice gives the same digest, and it is unchanged by reordering script
\* nodes and by changing, adding or removing any attribute other than href
\* and src.
C36_HashStable ==
    hPc \in {"again", "reordered", "restyled"} => hOtherHash = hHash

C36_Witness ==
    /\ hPc = "reordered"
    /\ hOther # hDoc
    /\ \E i \in 1..Len(hDoc) : hDoc[i].tag = "a" /\ hDoc[i].text = "x"
    /\ \E i, j \in 1..Len(hDoc) :
          /\ hDoc[i].tag = "script" /\ hDoc[j].tag = "script"
          /\ hDoc[i].text # hDoc[j].text

\* The jobs a worker has taken and not yet ended.
InProcess == {j \in Range(started) : jobEnd[j] = "none"}

\* C37: in every reachable state of a pool the number of jobs being
\* processed is at most the pool's worker count, each worker holding at most
\* one job, and the number of queued jobs is at most the queue capacity.
C37_WithinWorkersAndCapacity ==
    /\ Cardinality(InProcess) <= PoolWorkers
    /\ InProcess = {cur[w] : w \in PWorkers} \ {0}
    /\ \A v, w \in PWorkers : (v # w /\ cur[v] # 0) => cur[v] # cur[w]
    /\ Len(jobQueue) <= PoolQueueSize

C37_Witness ==
    /\ Cardinality(InProcess) = PoolWorkers
    /\ jobQueue # <<>>
    /\ ~crashed

\* ------------------------------- an endpoint's HTML prettify jobs: claims
\* C38: for an endpoint with both hash and mobile_hash set, the final
\* persisted prettify_status does not depend on the order in which its
\* desktop and mobile HTML prettify jobs finish: the same pair of prettifier
\* outcomes yields the same final status in every interleaving.
C38_OrderIndependent ==
    (\A x \in Executions :
        pfRow[x] # "pending" /\ pfLeft[x] = {} /\ pfSaving[x] = {}) =>
        pfRow[1] = pfRow[2]

\* ------------------------- batch submissions to the extraction pool: claims
\* The records of batch b among the records the channel took, in the order
\* it took them.
TakenOf(b) == SelectSeq(bAccepted, LAMBDA r : r \in Range(b))

\* C39: a batch submission to the extraction pool is all-or-nothing: it
\* either enqueues every given record, in the given order, and returns
\* success, or enqueues none of them and returns an error, also when other
\* submitters enqueue concurrently.
C39_AllOrNothing ==
    \A t \in Submitters :
        bRet[t] # "none" =>
            IF bRet[t] = "nil" THEN TakenOf(bBatch[t]) = bBatch[t]
            ELSE TakenOf(bBatch[t]) = <<>>

\* --------------------------- one worker pool, started at any time: claims
\* C40: after any sequence of start and stop calls on a pool, whenever the
\* pool is marked running, and no Stop is at work under the lock, its job
\* queue is open and exactly N workers are alive, waiting for or processing
\* jobs; a start that follows a completed stop does not produce a running
\* pool whose queue is closed.
C40_RunningPoolWorks ==
    (isRunning /\ mu = 0 /\ ~crashed) =>
        /\ ~closed
        /\ \A w \in PWorkers : pc[w] \notin {"none", "exit"}
        /\ workerWg = PoolWorkers

====
